---------------------------- MODULE Spec2Model ----------------------------
(***************************************************************************)
(* Sports tournament scheduling, SAT formulation (source/SAT).             *)
(*                                                                         *)
(* The module models                                                       *)
(*   - utils.generate_rb_and_flattened: the circle-method skeleton, as the *)
(*     two nested loops of the source (specification SpecSkel);            *)
(*   - sat_encodings: the cardinality encodings, on both backends;         *)
(*   - solve.add_core_constraints, solve.satisfy, solve.optimize and the   *)
(*     two backends of solver_backend (specification Spec).                *)
(*                                                                         *)
(* A one-hot vector of solver booleans is modelled by the set of indices   *)
(* whose boolean is true, so a vector that is not one-hot (empty, or two   *)
(* indices true) is a value the model can hold and the constraints have to *)
(* reject.                                                                 *)
(***************************************************************************)
EXTENDS Integers, Sequences, FiniteSets, TLC

VARIABLES
    N,          \* number of teams given to the call
    backend,    \* "z3" | "ortools"
    mode,       \* "satisfy" | "optimize" | "skeleton"
    pc,         \* position in the running function
    it,         \* loop counter of generate_rb_and_flattened
    rb,         \* utils.py: rb[(p, w, s)], filled by the first loop
    matches,    \* utils.py: matches[m, s], filled by the second loop
    scopes,     \* the solver's assertion stack: one set of constraint groups
                \* per frame, the base frame first
    objective,  \* ORToolsBackend._objective is set
    status,     \* what the last check() returned: "SAT" | "UNSAT" | "UNKNOWN"
    last_status,\* ORToolsBackend._last_status, the status of CpSolver.Solve
    model,      \* the assignment of the last SAT answer: {} or {assignment}
    target,     \* the loop variable of the linear search
    exc,        \* the exception the call ended with
    result,     \* the first component of the returned pair: {} is None
    printed,    \* the message of the branch that found no solution
    calls,      \* the number of check() calls made so far
    constraint_stack,   \* ORToolsBackend._constraint_stack
    ret,        \* the value the last backend method returned
    instances,  \* the solver instances of a repeated build
    bvec,       \* the booleans an encoding function is called on
    karg,       \* the integer argument of the call (k, max_count, target)
    free,       \* the solver's choice for the variables the call leaves free
    files,      \* the JSON files of the output directory of a batch
    executed    \* the (approach, N) pairs a batch has run the solver for

solverVars == <<scopes, objective, status, last_status, model, target, exc, result,
                printed, calls>>

\* state that only the backend-interface and repeated-build steps change
extraVars == <<constraint_stack, ret, instances>>

\* state of the encoding calls and of the batch runs
moreVars == <<bvec, karg, free, files, executed>>

vars == <<N, backend, mode, pc, it, rb, matches,
          scopes, objective, status, last_status, model, target, exc, result,
          printed, calls, constraint_stack, ret, instances,
          bvec, karg, free, files, executed>>

----------------------------------------------------------------------------
(* Bounds *)

\* largest N the skeleton loops are run for
SkelMaxN == 10

SkelNs == {n \in 4..SkelMaxN : n % 2 = 0}

\* largest N given to satisfy and optimize
MaxN == 6

\* the N a constraint set is built for: the even ones pass the assertion
SolveNs == {n \in 4..MaxN : n % 2 = 0}

----------------------------------------------------------------------------
(* utils.calculate_params *)

Teams(n)   == 0..(n - 1)
Roles      == 0..1
Weeks(n)   == 0..(n - 2)
Periods(n) == 0..((n \div 2) - 1)
MatchIds(n) == 0..((n - 1) * (n \div 2) - 1)

----------------------------------------------------------------------------
(* utils.generate_rb_and_flattened *)

\* a mutant of rb_value: the second-listed team of periods >= 1 is taken
\* modulo N for modulo N - 1
rb_value_mod_n(n, p, w, s) ==
    IF s = 0
    THEN IF p = 0 THEN (IF w % 2 = 0 THEN n - 1 ELSE w)
                  ELSE (p + w) % (n - 1)
    ELSE IF p = 0 THEN (IF w % 2 = 0 THEN w ELSE n - 1)
                  ELSE (n - p + w - 1) % n

\* the value stored in rb[(p, w, s)]
rb_value(n, p, w, s) ==
    IF s = 0
    THEN IF p = 0 THEN (IF w % 2 = 0 THEN n - 1 ELSE w)
                  ELSE (p + w) % (n - 1)
    ELSE IF p = 0 THEN (IF w % 2 = 0 THEN w ELSE n - 1)
                  ELSE (n - p + w - 1) % (n - 1)

\* m = w * (N // 2) + p
flat_id(n, w, p) == w * (n \div 2) + p

\* number of iterations of either triple loop
LoopLen(n) == (n \div 2) * (n - 1) * 2

\* the k-th iteration of "for p in P: for w in W: for s in S"
RbIter(n, k) ==
    [p |-> k \div (2 * (n - 1)), w |-> (k \div 2) % (n - 1), s |-> k % 2]

\* the k-th iteration of "for w in W: for p in P: for s in S"
FlatIter(n, k) ==
    [w |-> k \div (2 * (n \div 2)), p |-> (k \div 2) % (n \div 2), s |-> k % 2]

\* the whole function: the flattened catalogue (match id, role) -> team
generate_rb_and_flattened(n) ==
    [ms \in MatchIds(n) \X Roles |->
        rb_value(n, ms[1] % (n \div 2), ms[1] \div (n \div 2), ms[2])]

\* the catalogue of every N of the model, computed once
match_pairs == [n \in SkelNs \cup SolveNs |-> generate_rb_and_flattened(n)]

Empty == [x \in {} |-> 0]

SkelInit ==
    /\ N \in SkelNs
    /\ backend = "none"
    /\ mode = "skeleton"
    /\ pc = "rb"
    /\ it = 0
    /\ rb = Empty
    /\ matches = Empty
    /\ scopes = <<>>
    /\ objective = FALSE
    /\ status = "none"
    /\ last_status = "none"
    /\ model = {}
    /\ target = 0
    /\ exc = "none"
    /\ result = {}
    /\ printed = "none"
    /\ calls = 0
    /\ constraint_stack = <<>>
    /\ ret = [call |-> "none", value |-> "none"]
    /\ instances = <<>>
    /\ bvec = <<>> /\ karg = 0 /\ free = {} /\ files = <<>> /\ executed = {}

\* one iteration of the first loop: rb[(p, w, s)] = ...
RbStep ==
    /\ pc = "rb"
    /\ it < LoopLen(N)
    /\ LET i == RbIter(N, it) IN
         rb' = (<<i.p, i.w, i.s>> :> rb_value(N, i.p, i.w, i.s)) @@ rb
    /\ it' = it + 1
    /\ UNCHANGED <<N, backend, mode, pc, matches>>
    /\ UNCHANGED solverVars
    /\ UNCHANGED extraVars
    /\ UNCHANGED moreVars

\* the first loop is exhausted: matches = {}
RbDone ==
    /\ pc = "rb"
    /\ it = LoopLen(N)
    /\ pc' = "flatten"
    /\ it' = 0
    /\ UNCHANGED <<N, backend, mode, rb, matches>>
    /\ UNCHANGED solverVars
    /\ UNCHANGED extraVars
    /\ UNCHANGED moreVars

\* one iteration of the second loop: matches[m, s] = rb[p, w, s]
FlattenStep ==
    /\ pc = "flatten"
    /\ it < LoopLen(N)
    /\ LET i == FlatIter(N, it) IN
         matches' = (<<flat_id(N, i.w, i.p), i.s>> :> rb[<<i.p, i.w, i.s>>]) @@ matches
    /\ it' = it + 1
    /\ UNCHANGED <<N, backend, mode, pc, rb>>
    /\ UNCHANGED solverVars
    /\ UNCHANGED extraVars
    /\ UNCHANGED moreVars

\* return rb, matches
FlattenDone ==
    /\ pc = "flatten"
    /\ it = LoopLen(N)
    /\ pc' = "ret"
    /\ UNCHANGED <<N, backend, mode, it, rb, matches>>
    /\ UNCHANGED solverVars
    /\ UNCHANGED extraVars
    /\ UNCHANGED moreVars

SkelNext == RbStep \/ RbDone \/ FlattenStep \/ FlattenDone

SpecSkel == SkelInit /\ [][SkelNext]_vars

----------------------------------------------------------------------------
(* sat_encodings: cardinality encodings.  A list of solver booleans is a   *)
(* sequence; its valuation under a model is a sequence of BOOLEAN.         *)

Backends == {"z3", "ortools"}

\* sum(bool_vars) under a valuation
CountTrue(X) == Cardinality({i \in 1..Len(X) : X[i]})

\* at_least_one: True for the empty list, Or(bool_vars) / AddBoolOr otherwise
at_least_one(X) ==
    \/ Len(X) = 0
    \/ \E i \in 1..Len(X) : X[i]

\* at_most_one: True for len <= 1; z3: pairwise Not(And(a, b)) over
\* combinations(bool_vars, 2), the pairs i < j (a pair whose first boolean is
\* false holds at once); ortools: AddAtMostOne
at_most_one(b, X) ==
    \/ Len(X) <= 1
    \/ IF b = "ortools"
       THEN CountTrue(X) <= 1
       ELSE \A i \in 1..Len(X) : X[i] => \A j \in (i + 1)..Len(X) : ~(X[i] /\ X[j])

\* exactly_one: for the empty list it returns False and adds nothing to the
\* solver; ortools: AddExactlyOne; z3: And(at_least_one, at_most_one)
exactly_one(b, X) ==
    \/ Len(X) = 0
    \/ IF b = "ortools"
       THEN CountTrue(X) = 1
       ELSE at_least_one(X) /\ at_most_one(b, X)

\* the auxiliary booleans s[i][j], i in range(n-1), j in range(k), of
\* at_most_k_seq_z3: a value of s is a sequence of n-1 rows, row i+1 the set
\* of the j+1 with s[i][j] true.  Every clause of the encoding is Horn in s
\* once X is fixed, so the clauses have a satisfying s iff their least s
\* satisfies them; SeqRows computes that least s row by row.
RECURSIVE SeqRows(_, _, _)
SeqRows(X, k, acc) ==
    IF Len(acc) = Len(X) - 1 THEN acc
    ELSE LET i == Len(acc)
             row == IF i = 0
                    THEN {j \in 1..k : j = 1 /\ X[1]}
                    ELSE {j \in 1..k :
                            IF j = 1 THEN X[i + 1] \/ 1 \in acc[i]
                            ELSE (X[i + 1] /\ (j - 1) \in acc[i]) \/ j \in acc[i]}
         IN SeqRows(X, k, Append(acc, row))

\* the And(...) returned by at_most_k_seq_z3 for n > k >= 1, under X and s
SeqClauses(X, k, s) ==
    LET n == Len(X) IN
    /\ X[1] => 1 \in s[1]
    /\ k \in s[n - 1] => ~X[n]
    /\ \A j \in 2..k : j \notin s[1]
    /\ \A i \in 2..(n - 1) :
          /\ (X[i] \/ 1 \in s[i - 1]) => 1 \in s[i]
          /\ \A j \in 2..k :
                ((X[i] /\ (j - 1) \in s[i - 1]) \/ j \in s[i - 1]) => j \in s[i]
          /\ k \in s[i - 1] => ~X[i]

\* at_most_k_seq_z3 is satisfied by some value of its auxiliary booleans
at_most_k_seq_z3(X, k) ==
    IF Len(X) <= k THEN TRUE
    ELSE IF k = 0 THEN \A i \in 1..Len(X) : ~X[i]
    ELSE SeqClauses(X, k, SeqRows(X, k, <<>>))

\* an at_most_k whose linear constraint is sum < k
at_most_k_strict(b, X, k) ==
    \/ Len(X) <= k
    \/ IF b = "ortools"
       THEN CountTrue(X) < k
       ELSE at_most_k_seq_z3(X, k)

\* at_most_k: True for len <= k; ortools: Add(sum <= k); z3: sequential counter
at_most_k(b, X, k) ==
    \/ Len(X) <= k
    \/ IF b = "ortools"
       THEN CountTrue(X) <= k
       ELSE at_most_k_seq_z3(X, k)

----------------------------------------------------------------------------
(* solve.add_core_constraints.  sched[<<p, w>>] is the set of match ids m  *)
(* whose boolean matches_idx_vars[p, w][m] is true.                        *)

Slots(n) == Periods(n) \X Weeks(n)

\* the valuation of the one-hot list matches_idx_vars[p, w]
MidxVec(n, sched, p, w) ==
    [i \in 1..Cardinality(MatchIds(n)) |-> (i - 1) \in sched[<<p, w>>]]

\* the list "indicators" of constraint 2: for p in P: for w in W
AllDiffVec(n, sched, m) ==
    [i \in 1..Cardinality(Slots(n)) |->
        m \in sched[<<(i - 1) \div (n - 1), (i - 1) % (n - 1)>>]]

\* the list team_appears of constraint 4: for w in W, for m in range(low, high),
\* the boolean of (period, w, m) when match m has the team
RECURSIVE TeamAppears(_, _, _, _, _)
TeamAppears(n, sched, period, team, k) ==
    IF k = (n - 1) * (n \div 2) THEN <<>>
    ELSE LET cat == match_pairs[n]
             w == k \div (n \div 2)
             rest == TeamAppears(n, sched, period, team, k + 1)
         IN IF cat[<<k, 0>>] = team \/ cat[<<k, 1>>] = team
            THEN <<k \in sched[<<period, w>>]>> \o rest
            ELSE rest

\* each position has exactly one match assigned
core_exactly_one(n, b, sched) ==
    \A p \in Periods(n), w \in Weeks(n) : exactly_one(b, MidxVec(n, sched, p, w))

\* a symmetry breaking that fixes another match of week 0 at the slot
core_symmetry_other(n, b, sched) == 1 \in sched[<<0, 0>>]

\* constraint 1: matches_idx[0, 0] = 0
core_symmetry(n, b, sched) == 0 \in sched[<<0, 0>>]

\* a mutant of core_all_different: the loop over M adds nothing
core_all_different_skipped(n, b, sched) == TRUE

\* constraint 2: each match id is used exactly once
core_all_different(n, b, sched) ==
    \A m \in MatchIds(n) : exactly_one(b, AllDiffVec(n, sched, m))

\* constraint 3: week w uses the match ids of [w*(N/2), (w+1)*(N/2))
core_range(n, b, sched) ==
    \A w \in Weeks(n), p \in Periods(n) :
        LET low == w * (n \div 2)
            high == (w + 1) * (n \div 2)
        IN \A m \in MatchIds(n) :
              ~(low <= m /\ m < high) => m \notin sched[<<p, w>>]

\* a mutant of core_at_most_two: the last team is not constrained in the
\* last period
core_at_most_two_skipping_last(n, b, sched) ==
    \A period \in Periods(n), team \in Teams(n) :
        LET team_appears == TeamAppears(n, sched, period, team, 0)
        IN (Len(team_appears) > 0 /\ ~(period = (n \div 2) - 1 /\ team = n - 1))
              => at_most_k(b, team_appears, 2)

\* a mutant of core_at_most_two: at most once instead of at most twice
core_at_most_two_once(n, b, sched) ==
    \A period \in Periods(n), team \in Teams(n) :
        LET team_appears == TeamAppears(n, sched, period, team, 0)
        IN Len(team_appears) > 0 => at_most_k(b, team_appears, 1)

\* constraint 4: each team plays at most twice in any period
core_at_most_two(n, b, sched) ==
    \A period \in Periods(n), team \in Teams(n) :
        LET team_appears == TeamAppears(n, sched, period, team, 0)
        IN Len(team_appears) > 0 => at_most_k(b, team_appears, 2)

add_core_constraints(n, b, sched) ==
    /\ core_exactly_one(n, b, sched)
    /\ core_symmetry(n, b, sched)
    /\ core_all_different(n, b, sched)
    /\ core_range(n, b, sched)
    /\ core_at_most_two(n, b, sched)

----------------------------------------------------------------------------
(* The assignments the solver is asked about.  The external solver is      *)
(* modelled by its contract: SAT comes with a model that satisfies every   *)
(* constraint, UNSAT is answered only when no assignment satisfies them.   *)
(* The assignments are drawn from a bounded family: every placement of     *)
(* each week's matches on the week's periods, every assignment that gives  *)
(* all the slots of a week the same match, and vectors that are not        *)
(* one-hot or leave the week's range, made by changing one or two slots of *)
(* a placement that holds match 0 at slot (0, 0) and respects the cap of    *)
(* two appearances per period.                                             *)

\* slots of weeks 0..PertWeeks are the ones changed to make malformed vectors
PertWeeks == 1

Perms(n) ==
    {f \in [Periods(n) -> Periods(n)] : \A a, c \in Periods(n) : a # c => f[a] # f[c]}

Placements(n) ==
    {[sl \in Slots(n) |-> {flat_id(n, sl[2], f[sl[2]][sl[1]])}] :
        f \in [Weeks(n) -> Perms(n)]}

\* every slot of a week holds the same match of the week
Repeats(n) ==
    {[sl \in Slots(n) |-> {flat_id(n, sl[2], f[sl[2]])}] : f \in [Weeks(n) -> Periods(n)]}

\* the teams of the matches a slot holds
TeamsAt(n, sched, p, w) ==
    LET cat == match_pairs[n]
    IN UNION {{cat[<<m, 0>>], cat[<<m, 1>>]} : m \in sched[<<p, w>>]}

\* no team appears in more than two weeks of the same period
CapRespected(n, sched) ==
    \A p \in Periods(n), t \in Teams(n) :
        Cardinality({w \in Weeks(n) : t \in TeamsAt(n, sched, p, w)}) <= 2

PertSlots(n) == {sl \in Slots(n) : sl[2] <= PertWeeks}

Perturbed(n, s) ==
    LET ps == PertSlots(n) IN
         {[s EXCEPT ![a] = {}] : a \in ps}
    \cup {[s EXCEPT ![a] = {m}] : a \in ps, m \in MatchIds(n)}
    \cup {[s EXCEPT ![a] = s[a] \cup {m}] : a \in ps, m \in MatchIds(n)}
    \cup {[s EXCEPT ![ac[1]] = s[ac[2]], ![ac[2]] = s[ac[1]]] : ac \in ps \X ps}
    \cup {[s EXCEPT ![ac[1]] = {}, ![ac[2]] = s[ac[1]] \cup s[ac[2]]] :
             ac \in {x \in ps \X ps : x[1] # x[2]}}

\* the assignments of the family that satisfy the core constraints: the
\* placements, and the changed copies of the cap-respecting placements
CoreModels ==
    [n \in SolveNs |->
        LET places == Placements(n)
            seeds == {q \in places : q[<<0, 0>>] = {0} /\ CapRespected(n, q)}
            changed == UNION {Perturbed(n, q) : q \in seeds}
        IN [b \in Backends |->
              {s \in places : add_core_constraints(n, b, s)}
              \cup {s \in Repeats(n) : add_core_constraints(n, b, s)}
              \cup {s \in changed : add_core_constraints(n, b, s)}]]

----------------------------------------------------------------------------
(* sat_encodings.encode_exact_count, constrain_total_imbalance             *)

\* some value of the auxiliary booleans makes the formula returned by
\* at_most_k_seq_z3 false (the formula stands on the left of an Implies):
\* the constant True never is; for k = 0 the formula has no auxiliaries;
\* otherwise two values of s are tried, all true and first row only.
at_most_k_seq_z3_refutable(X, k) ==
    IF Len(X) <= k THEN FALSE
    ELSE IF k = 0 THEN \E i \in 1..Len(X) : X[i]
    ELSE \E s \in {[i \in 1..(Len(X) - 1) |-> 1..k],
                   [i \in 1..(Len(X) - 1) |-> IF i = 1 THEN 1..k ELSE {}]} :
            ~SeqClauses(X, k, s)

NotVec(X) == [i \in 1..Len(X) |-> ~X[i]]

\* encode_exact_count: Ind is the valuation of the indicators, C the set of
\* the k whose count_vars[k] is true
encode_exact_count(b, Ind, C, max_count) ==
    \A k \in 0..max_count :
        IF b = "ortools"
        THEN IF k > Len(Ind) THEN k \notin C
             ELSE /\ k \in C => CountTrue(Ind) = k
                  /\ k \notin C => CountTrue(Ind) # k
        ELSE IF k > Len(Ind) THEN k \notin C
        ELSE IF k = 0
             THEN /\ 0 \in C => \A i \in 1..Len(Ind) : ~Ind[i]
                  /\ Len(Ind) > 0 => ((\A i \in 1..Len(Ind) : ~Ind[i]) => 0 \in C)
        ELSE IF k = Len(Ind)
             THEN /\ k \in C => \A i \in 1..Len(Ind) : Ind[i]
                  /\ (\A i \in 1..Len(Ind) : Ind[i]) => k \in C
        ELSE \* count_vars[k] <=> And(at_least_k, at_most_k_cond), with the
             \* auxiliaries of both formulas free
             IF k \in C
             THEN /\ at_most_k_seq_z3(NotVec(Ind), Len(Ind) - k)
                  /\ at_most_k_seq_z3(Ind, k)
             ELSE \/ at_most_k_seq_z3_refutable(NotVec(Ind), Len(Ind) - k)
                  \/ at_most_k_seq_z3_refutable(Ind, k)

Min(x, y) == IF x <= y THEN x ELSE y

\* an absolute value that counts a negative difference twice
Abs_doubled(x) == IF x < 0 THEN (-x) + (-x) ELSE x

Abs(x) == IF x < 0 THEN -x ELSE x

\* find_combinations(teams_left, current_sum, ...) yields a tuple whose
\* booleans diff_vars[t][combo[t]] are all true.  t = N - teams_left is the
\* team the next coordinate belongs to.
RECURSIVE find_combinations(_, _, _, _, _)
find_combinations(n, tgt, diff, teams_left, current_sum) ==
    IF teams_left = 0 THEN current_sum = tgt
    ELSE \E d \in 0..(Min(n, tgt - current_sum + 1) - 1) :
            /\ d \in diff[n - teams_left]
            /\ find_combinations(n, tgt, diff, teams_left - 1, current_sum + d)

\* a constraint that holds when some tuple summing to at most tgt is true
constrain_total_at_most(n, diff, tgt) ==
    \E v \in 0..tgt : find_combinations(n, v, diff, n, 0)

\* constrain_total_imbalance, z3 path: Or over the yielded tuples of
\* And(diff_vars[t][combo[t]]); with no tuple at all, False is added.  Both
\* cases hold exactly when some yielded tuple has all its booleans true.
constrain_total_imbalance(n, diff, tgt) ==
    find_combinations(n, tgt, diff, n, 0)

----------------------------------------------------------------------------
(* solve.optimize: the balance constraints.  A model a of the solver has   *)
(*   a.sched        the match-index booleans, as in the core constraints   *)
(*   a.home_first   [slot -> BOOLEAN]                                      *)
(*   a.home_count, a.away_count, a.diff                                    *)
(*                  [team -> set of the k with the one-hot boolean true]   *)
(*   a.total_imb    set of the v with total_imb_vars[v] true (ortools)     *)

\* the valuation of a one-hot list of max_val + 1 booleans
OneHotVec(C, max_val) == [i \in 1..(max_val + 1) |-> (i - 1) \in C]

\* the lists team_home_indicators (home = TRUE) and team_away_indicators of
\* team t: for p in P, for w in W, for m in range(low, high), the auxiliary
\* boolean of (p, w, m) when t is the first- or the second-listed team of m
RECURSIVE TeamIndicators(_, _, _, _, _)
TeamIndicators(n, a, t, home, k) ==
    IF k = (n \div 2) * (n - 1) * (n \div 2) THEN <<>>
    ELSE LET cat == match_pairs[n]
             p == k \div ((n - 1) * (n \div 2))
             w == (k \div (n \div 2)) % (n - 1)
             m == w * (n \div 2) + (k % (n \div 2))
             match_assigned == m \in a.sched[<<p, w>>]
             first == a.home_first[<<p, w>>]
             rest == TeamIndicators(n, a, t, home, k + 1)
         IN IF cat[<<m, 0>>] = t
            THEN <<match_assigned /\ (IF home THEN first ELSE ~first)>> \o rest
            ELSE IF cat[<<m, 1>>] = t
            THEN <<match_assigned /\ (IF home THEN ~first ELSE first)>> \o rest
            ELSE rest

\* the iterations of "for t in T" at solve.py:145 that run: every return of
\* optimize (lines 324, 327, 349, 353) is inside the body of that loop, so
\* the function returns during the first iteration
LinkedTeams(n) == {0}

\* lines 137-142, for one team: the two count vectors are one-hot
team_exactly_one(n, b, hc, ac) ==
    /\ exactly_one(b, OneHotVec(hc, n - 1))
    /\ exactly_one(b, OneHotVec(ac, n - 1))

\* lines 202-203, for one team: encode_exact_count of a list of indicators
\* against the team's count vector
team_count_channeling(n, b, indicators, count) ==
    encode_exact_count(b, indicators, count, n - 1)

\* lines 208-251, for one team: diff_vars[t] is one-hot and
\* diff_vars[t][d] <=> Or over |h - a| = d of And(home_count[t][h],
\* away_count[t][a]); both backends reify the same cases
team_diff_channeling(n, b, hc, ac, df) ==
    /\ exactly_one(b, OneHotVec(df, n - 1))
    /\ \A d \in 0..(n - 1) :
          LET cases == {ha \in (0..(n - 1)) \X (0..(n - 1)) : Abs(ha[1] - ha[2]) = d}
          IN IF cases # {}
             THEN d \in df <=> \E ha \in cases : ha[1] \in hc /\ ha[2] \in ac
             ELSE d \notin df

count_exactly_one(n, b, a) ==
    \A t \in Teams(n) : team_exactly_one(n, b, a.home_count[t], a.away_count[t])

\* lines 145-203: the channeling of the counts of the teams the loop reaches
count_channeling(n, b, a) ==
    \A t \in LinkedTeams(n) :
        /\ team_count_channeling(n, b, TeamIndicators(n, a, t, TRUE, 0), a.home_count[t])
        /\ team_count_channeling(n, b, TeamIndicators(n, a, t, FALSE, 0), a.away_count[t])

diff_channeling(n, b, a) ==
    \A t \in Teams(n) :
        team_diff_channeling(n, b, a.home_count[t], a.away_count[t], a.diff[t])

\* lines 255-293 (ortools): total_imb_vars[v] <=> some tuple of _enum(0, v)
\* has all its diff booleans true; _enum prunes as find_combinations does
total_values(n, diff) ==
    {v \in 0..(n * (n - 1)) : find_combinations(n, v, diff, n, 0)}

total_channeling_on(n, b, total_imb, values) ==
    /\ exactly_one(b, OneHotVec(total_imb, n * (n - 1)))
    /\ \A v \in 0..(n * (n - 1)) : v \in total_imb <=> v \in values

total_channeling(n, b, a) ==
    total_channeling_on(n, b, a.total_imb, total_values(n, a.diff))

\* the constraints optimize adds to the core constraints before it searches
balance_constraints(n, b, a) ==
    /\ count_exactly_one(n, b, a)
    /\ count_channeling(n, b, a)
    /\ diff_channeling(n, b, a)
    /\ b = "ortools" => total_channeling(n, b, a)

----------------------------------------------------------------------------
(* The assignments optimize's solver is asked about: a schedule that       *)
(* satisfies the core constraints; an orientation per week; for the teams  *)
(* the count channeling reaches, any value of the three one-hot vectors,   *)
(* one-hot or not; for the other teams either the counts of the schedule   *)
(* or one of a family of values unrelated to the schedule.                 *)

\* home_first takes the same value on the periods of a week, and is true
\* on the first k weeks
Orientations(n) ==
    {[sl \in Slots(n) |-> sl[2] < k] : k \in 0..(n - 1)}

\* the values of a one-hot vector over 0..n-1: the one-hot ones, the empty
\* one, and one with two booleans true
CountVectors(n) == {{k} : k \in 0..(n - 1)} \cup {{}, {0, 1}}

\* the number of slots in which team t is home (home = TRUE) or away
Tally(n, sched, home_first, t, home) ==
    LET cat == match_pairs[n] IN
    Cardinality({sl \in Slots(n) :
        \E m \in sched[sl] :
            \/ cat[<<m, 0>>] = t /\ home_first[sl] = home
            \/ cat[<<m, 1>>] = t /\ home_first[sl] # home})

\* the counts of the schedule, for every team
TrueCounts(n, sched, home_first) ==
    [t \in Teams(n) |->
        LET h == Tally(n, sched, home_first, t, TRUE)
            a == Tally(n, sched, home_first, t, FALSE)
        IN [h |-> {h}, a |-> {a}, d |-> {Abs(h - a)}]]

\* counts unrelated to the schedule whose differences sum to r over the
\* teams that are not linked: each takes what is left of r after the teams
\* before it, at most n - 1
SpreadCounts(n, r) ==
    [t \in Teams(n) |->
        LET before == Cardinality({u \in Teams(n) \ LinkedTeams(n) : u < t}) * (n - 1)
            d == Min(n - 1, IF r > before THEN r - before ELSE 0)
        IN [h |-> {d}, a |-> {0}, d |-> {d}]]

\* counts whose difference vector does not match the two count vectors
SkewCounts(n) == [t \in Teams(n) |-> [h |-> {1}, a |-> {0}, d |-> {0}]]

\* the families that do not read the schedule
FixedFamilies(n) ==
    {SkewCounts(n)} \cup {SpreadCounts(n, r) : r \in 0..((n - 1) * (n - 1))}

\* a family's values for the teams that are not linked are accepted by the
\* constraints of those teams
FamilyAccepted(n, b, fam) ==
    \A t \in Teams(n) \ LinkedTeams(n) :
        /\ team_exactly_one(n, b, fam[t].h, fam[t].a)
        /\ team_diff_channeling(n, b, fam[t].h, fam[t].a, fam[t].d)

FixedAccepted ==
    [n \in SolveNs |-> [b \in Backends |->
        {fam \in FixedFamilies(n) : FamilyAccepted(n, b, fam)}]]

\* the values of (home_count[t], away_count[t], diff[t]) of a linked team
\* that its constraints accept, over one schedule and one orientation
LinkedChoices(n, b, sched, home_first, t) ==
    LET a == [sched |-> sched, home_first |-> home_first]
        hind == TeamIndicators(n, a, t, TRUE, 0)
        aind == TeamIndicators(n, a, t, FALSE, 0)
        hs == {c \in CountVectors(n) : team_count_channeling(n, b, hind, c)}
        as == {c \in CountVectors(n) : team_count_channeling(n, b, aind, c)}
    IN {l \in hs \X as \X CountVectors(n) :
           /\ team_exactly_one(n, b, l[1], l[2])
           /\ team_diff_channeling(n, b, l[1], l[2], l[3])}

\* the families whose values for the teams that are not linked are accepted
\* by the constraints of those teams
FreeChoices(n, b, sched, home_first) ==
    FixedAccepted[n][b]
    \cup {fam \in {TrueCounts(n, sched, home_first)} : FamilyAccepted(n, b, fam)}

\* every way of giving each linked team one of its accepted values
LinkedProduct(n, b, sched, home_first) ==
    LET choices == [t \in LinkedTeams(n) |-> LinkedChoices(n, b, sched, home_first, t)]
    IN {f \in [LinkedTeams(n) -> UNION {choices[t] : t \in LinkedTeams(n)}] :
           \A t \in LinkedTeams(n) : f[t] \in choices[t]}

\* the candidates over one schedule and one orientation that satisfy
\* count_exactly_one, count_channeling and diff_channeling: the three are
\* conjunctions over the teams, on variables no two teams share
Candidates(n, b, sched, home_first) ==
    {[sched |-> sched, home_first |-> home_first,
      home_count |-> [t \in Teams(n) |-> IF t \in LinkedTeams(n) THEN l[t][1] ELSE fam[t].h],
      away_count |-> [t \in Teams(n) |-> IF t \in LinkedTeams(n) THEN l[t][2] ELSE fam[t].a],
      diff       |-> [t \in Teams(n) |-> IF t \in LinkedTeams(n) THEN l[t][3] ELSE fam[t].d],
      total_imb  |-> {}] :
        l \in LinkedProduct(n, b, sched, home_first),
        fam \in FreeChoices(n, b, sched, home_first)}

\* the sum of the differences a model's one-hot vectors stand for, when they
\* are one-hot
RECURSIVE SumDiff(_, _, _)
SumDiff(n, diff, t) ==
    IF t = n THEN 0
    ELSE (CHOOSE d \in diff[t] : TRUE) + SumDiff(n, diff, t + 1)

\* the values of total_imb tried on a candidate: the sum of its differences,
\* its neighbours, and a vector that is not one-hot
WithTotals(n, a) ==
    LET s == SumDiff(n, a.diff, 0) IN
    {[a EXCEPT !.total_imb = v] :
        v \in {{s}, {}, {0, n * (n - 1)}}
                 \cup {{x} : x \in {s - 1, s + 1} \cap (0..(n * (n - 1)))}}

\* the assignments of the family that satisfy the constraints optimize has
\* added before its search: core and balance constraints
BalanceModels ==
    [n \in SolveNs |-> [b \in Backends |->
        UNION {UNION {
            LET base == Candidates(n, b, s, o)
            IN IF b = "ortools"
               THEN UNION {
                      LET values == total_values(n, a.diff)
                      IN {x \in WithTotals(n, a) :
                             total_channeling_on(n, b, x.total_imb, values)}
                      : a \in base}
               ELSE base
            : o \in Orientations(n)} : s \in CoreModels[n][b]}]]

----------------------------------------------------------------------------
(* utils.extract_solution, utils.format_json *)

\* "for k in ...: if is_true(model.evaluate(v[k])): out[key] = k; break": the
\* first true index of each vector; a key with no true boolean is not stored
FirstTrue(vec) ==
    [key \in {x \in DOMAIN vec : vec[x] # {}} |->
        CHOOSE k \in vec[key] : \A j \in vec[key] : k <= j]

\* sum(diffs.values())
RECURSIVE SumValues(_)
SumValues(f) ==
    IF DOMAIN f = {} THEN 0
    ELSE LET k == CHOOSE x \in DOMAIN f : TRUE
         IN f[k] + SumValues([x \in DOMAIN f \ {k} |-> f[x]])

\* the dictionary extract_solution builds from a model of optimize
extract_solution(n, a) ==
    LET diffs == FirstTrue(a.diff)
    IN [solution    |-> FirstTrue(a.sched),
        home_first  |-> a.home_first,
        home_counts |-> FirstTrue(a.home_count),
        away_counts |-> FirstTrue(a.away_count),
        diffs       |-> diffs,
        imbalance   |-> SumValues(diffs)]

\* the dictionary extract_solution builds from a model of satisfy: no
\* orientation and no count variables are passed, so home_first stays the
\* empty dictionary and the other entries None
extract_solution_decision(n, a) ==
    [solution    |-> FirstTrue(a.sched),
     home_first  |-> <<>>,
     home_counts |-> {},
     away_counts |-> {},
     diffs       |-> {},
     imbalance   |-> {}]

\* a matrix that keeps the zero-based team ids
format_json_zero_based(n, sol) ==
    LET cat == match_pairs[n] IN
    [p \in Periods(n) |-> [w \in Weeks(n) |->
        LET m == sol.solution[<<p, w>>]
        IN IF <<p, w>> \in DOMAIN sol.home_first /\ ~sol.home_first[<<p, w>>]
           THEN <<cat[<<m, 1>>], cat[<<m, 0>>]>>
           ELSE <<cat[<<m, 0>>], cat[<<m, 1>>]>>]]

\* format_json: sol[p][w] = [home + 1, away + 1]; the first-listed team of
\* the match is home when home_first[p, w] or when (p, w) is not in
\* home_first, the second-listed when home_first[p, w] is false
format_json(n, sol) ==
    LET cat == match_pairs[n] IN
    [p \in Periods(n) |-> [w \in Weeks(n) |->
        LET m == sol.solution[<<p, w>>]
        IN IF <<p, w>> \in DOMAIN sol.home_first
           THEN IF sol.home_first[<<p, w>>]
                THEN <<cat[<<m, 0>>] + 1, cat[<<m, 1>>] + 1>>
                ELSE <<cat[<<m, 1>>] + 1, cat[<<m, 0>>] + 1>>
           ELSE <<cat[<<m, 0>>] + 1, cat[<<m, 1>>] + 1>>]]

----------------------------------------------------------------------------
(* solve.satisfy and solve.optimize.  Each call of check() is one step,    *)
(* taken together with the branch on its result.                           *)

\* the dictionary rb of generate_rb_and_flattened
rb_of(n) ==
    [pws \in Periods(n) \X Weeks(n) \X Roles |-> rb_value(n, pws[1], pws[2], pws[3])]

\* the assignments that satisfy what satisfy has added before check()
SatisfyModels ==
    [n \in SolveNs |-> [b \in Backends |-> {[sched |-> s] : s \in CoreModels[n][b]}]]

Feasible(n, b, m) == IF m = "satisfy" THEN SatisfyModels[n][b] ELSE BalanceModels[n][b]

\* sum(v * total_imb_vars[v] for v in range(max_imb + 1))
ObjectiveValue(a) == SumValues([v \in a.total_imb |-> v])

\* what CpSolver.Solve answers with a solution: without an objective the
\* status is OPTIMAL; with one, OPTIMAL comes with a minimum of the
\* objective, FEASIBLE with any solution
SolveAnswers(n, b, m, obj) ==
    {x \in {"OPTIMAL", "FEASIBLE"} \X Feasible(n, b, m) :
        IF obj
        THEN x[1] = "OPTIMAL" =>
               \A o \in Feasible(n, b, m) : ObjectiveValue(x[2]) <= ObjectiveValue(o)
        ELSE x[1] = "OPTIMAL"}

Init ==
    /\ N \in 4..MaxN
    /\ backend \in Backends
    /\ mode \in {"satisfy", "optimize"}
    /\ pc = "start"
    /\ it = 0
    /\ rb = Empty
    /\ matches = Empty
    /\ scopes = <<>>
    /\ objective = FALSE
    /\ status = "none"
    /\ last_status = "none"
    /\ model = {}
    /\ target = 0
    /\ exc = "none"
    /\ result = {}
    /\ printed = "none"
    /\ calls = 0
    /\ constraint_stack = <<>>
    /\ ret = [call |-> "none", value |-> "none"]
    /\ instances = <<>>
    /\ bvec = <<>> /\ karg = 0 /\ free = {} /\ files = <<>> /\ executed = {}

\* Z3Backend.push: self.solver.push() opens a scope; the constraints added
\* next belong to it
z3_push(stack, frame) == Append(stack, frame)

\* a pop that leaves the scope and its constraints in place
z3_pop_kept(stack) == stack

\* Z3Backend.pop: self.solver.pop() drops the innermost scope with every
\* constraint added since the matching push
z3_pop(stack) == SubSeq(stack, 1, Len(stack) - 1)

\* the constraints in force: those of every scope on the stack
Active(stack) == UNION {stack[i] : i \in 1..Len(stack)}

\* the groups of constraints a call has added before its first check()
BaseFrame(m) == IF m = "satisfy" THEN {<<"core">>} ELSE {<<"core">>, <<"balance">>}

\* the else branch of "if result == 'SAT'": what is printed and returned
\* when check() answered st; the branch does not read st
NoSolutionOutcome(m, st) ==
    [value   |-> {},
     printed |-> IF m = "satisfy" THEN "No solution found (UNSAT)"
                                  ELSE "No solution found"]

\* an assertion that lets every N through
assert_skipped(n) == TRUE

\* the condition of "assert N % 2 == 0, ..." that opens satisfy and optimize
assert_even(n) == n % 2 = 0

\* assert N % 2 == 0, "Number of teams must be even"
AssertFail ==
    /\ pc = "start"
    /\ ~assert_even(N)
    /\ exc' = "AssertionError"
    /\ pc' = "raised"
    /\ UNCHANGED <<N, backend, mode, it, rb, matches,
                   scopes, objective, status, last_status, model, target, result, printed, calls>>
    /\ UNCHANGED extraVars
    /\ UNCHANGED moreVars

\* calculate_params, generate_rb_and_flattened, create_solver, the decision
\* variables and every constraint added before the first check(); optimize
\* on ortools also sets the objective, on z3 it enters the loop over target
Build ==
    /\ pc = "start"
    /\ assert_even(N)
    /\ rb' = rb_of(N)
    /\ matches' = generate_rb_and_flattened(N)
    /\ scopes' = <<BaseFrame(mode)>>
    /\ objective' = (mode = "optimize" /\ backend = "ortools")
    /\ target' = IF mode = "optimize" /\ backend = "z3" THEN N ELSE target
    /\ pc' = IF mode = "optimize" /\ backend = "z3" THEN "loop" ELSE "check"
    /\ UNCHANGED <<N, backend, mode, it, status, last_status, model, exc, result, printed, calls>>
    /\ UNCHANGED extraVars
    /\ UNCHANGED moreVars

\* check() answers 'SAT' (z3: sat; ortools: OPTIMAL or FEASIBLE): the call
\* goes on to extract_solution
CheckSat ==
    /\ pc = "check"
    /\ \E x \in SolveAnswers(N, backend, mode, objective) :
          /\ backend = "z3" => x[1] = "OPTIMAL"
          /\ model' = {x[2]}
          /\ last_status' = IF backend = "ortools" THEN x[1] ELSE last_status
    /\ status' = "SAT"
    /\ pc' = "extract"
    /\ calls' = calls + 1
    /\ UNCHANGED <<N, backend, mode, it, rb, matches, scopes, objective, target, exc, result, printed>>
    /\ UNCHANGED extraVars
    /\ UNCHANGED moreVars

\* check() answers 'UNSAT': return None, elapsed_time
CheckUnsat ==
    /\ pc = "check"
    /\ Feasible(N, backend, mode) = {}
    /\ status' = "UNSAT"
    /\ last_status' = IF backend = "ortools" THEN "INFEASIBLE" ELSE last_status
    /\ result' = NoSolutionOutcome(mode, "UNSAT").value
    /\ pc' = "returned"
    /\ calls' = calls + 1
    /\ printed' = NoSolutionOutcome(mode, "UNSAT").printed
    /\ UNCHANGED <<N, backend, mode, it, rb, matches, scopes, objective, model, target, exc>>
    /\ UNCHANGED extraVars
    /\ UNCHANGED moreVars

\* check() answers 'UNKNOWN' (the solver gave up): the same else branch
CheckUnknown ==
    /\ pc = "check"
    /\ status' = "UNKNOWN"
    /\ last_status' = IF backend = "ortools" THEN "UNKNOWN" ELSE last_status
    /\ result' = NoSolutionOutcome(mode, "UNKNOWN").value
    /\ pc' = "returned"
    /\ calls' = calls + 1
    /\ printed' = NoSolutionOutcome(mode, "UNKNOWN").printed
    /\ UNCHANGED <<N, backend, mode, it, rb, matches, scopes, objective, model, target, exc>>
    /\ UNCHANGED extraVars
    /\ UNCHANGED moreVars

\* a range that runs one candidate further
last_target_plus_one(n) == n * (n - 1) + 1

\* the last candidate of "for target in range(N, N * (N - 1) + 1)"
last_target(n) == n * (n - 1)

\* one pass of "for target in range(N, N * (N - 1) + 1)" up to check():
\* solver.push(); constrain_total_imbalance(solver, diff_vars, T, N, target)
LoopEnter ==
    /\ pc = "loop"
    /\ target <= last_target(N)
    /\ scopes' = z3_push(scopes, {<<"total", target>>})
    /\ pc' = "search"
    /\ UNCHANGED <<N, backend, mode, it, rb, matches,
                   objective, status, last_status, model, target, exc, result, printed, calls>>
    /\ UNCHANGED extraVars
    /\ UNCHANGED moreVars

\* the range is exhausted: return best_solution (None), elapsed_time
LoopExit ==
    /\ pc = "loop"
    /\ target > last_target(N)
    /\ result' = {}
    /\ pc' = "returned"
    /\ UNCHANGED <<N, backend, mode, it, rb, matches,
                   scopes, objective, status, last_status, model, target, exc, printed, calls>>
    /\ UNCHANGED extraVars
    /\ UNCHANGED moreVars

\* the assignments of the base constraint set with the pushed constraint
TargetModels(n, tgt) ==
    {a \in BalanceModels[n]["z3"] : constrain_total_imbalance(n, a.diff, tgt)}

\* what check() decides in the loop: the assignments of the base constraint
\* set that satisfy every total-imbalance constraint in force
ActiveModels(n, stack) ==
    {a \in BalanceModels[n]["z3"] :
        \A f \in Active(stack) :
            f[1] = "total" => constrain_total_imbalance(n, a.diff, f[2])}

\* check() in the loop answers 'SAT'
SearchSat ==
    /\ pc = "search"
    /\ \E a \in ActiveModels(N, scopes) : model' = {a}
    /\ status' = "SAT"
    /\ pc' = "extract"
    /\ calls' = calls + 1
    /\ UNCHANGED <<N, backend, mode, it, rb, matches,
                   scopes, objective, last_status, target, exc, result, printed>>
    /\ UNCHANGED extraVars
    /\ UNCHANGED moreVars

\* a loop that steps over every other candidate
next_target_skip(k) == k + 2

\* the candidate after k in range(N, N * (N - 1) + 1)
next_target(k) == k + 1

\* check() in the loop answers 'UNSAT': solver.pop() and the next target
SearchUnsat ==
    /\ pc = "search"
    /\ ActiveModels(N, scopes) = {}
    /\ status' = "UNSAT"
    /\ scopes' = z3_pop(scopes)
    /\ target' = next_target(target)
    /\ pc' = "loop"
    /\ calls' = calls + 1
    /\ UNCHANGED <<N, backend, mode, it, rb, matches,
                   objective, last_status, model, exc, result, printed>>
    /\ UNCHANGED extraVars
    /\ UNCHANGED moreVars

\* check() in the loop answers 'UNKNOWN': solver.pop() and the next target
SearchUnknown ==
    /\ pc = "search"
    /\ status' = "UNKNOWN"
    /\ scopes' = z3_pop(scopes)
    /\ target' = next_target(target)
    /\ pc' = "loop"
    /\ calls' = calls + 1
    /\ UNCHANGED <<N, backend, mode, it, rb, matches,
                   objective, last_status, model, exc, result, printed>>
    /\ UNCHANGED extraVars
    /\ UNCHANGED moreVars

\* extract_solution(..., backend=backend): utils.extract_solution has no
\* parameter named backend, so the call raises TypeError before its body
\* runs; in the loop the pending solver.pop() is not reached
ExtractCall ==
    /\ pc = "extract"
    /\ exc' = "TypeError"
    /\ pc' = "raised"
    /\ UNCHANGED <<N, backend, mode, it, rb, matches,
                   scopes, objective, status, last_status, model, target, result, printed, calls>>
    /\ UNCHANGED extraVars
    /\ UNCHANGED moreVars

Next ==
    \/ AssertFail \/ Build
    \/ CheckSat \/ CheckUnsat \/ CheckUnknown
    \/ LoopEnter \/ LoopExit
    \/ SearchSat \/ SearchUnsat \/ SearchUnknown
    \/ ExtractCall

Spec == Init /\ [][Next]_vars

\* optimize on the z3 backend alone: the calls that run the linear search
SearchInit == Init /\ mode = "optimize" /\ backend = "z3"

SearchNext ==
    \/ AssertFail \/ Build
    \/ LoopEnter \/ LoopExit
    \/ SearchSat \/ SearchUnsat \/ SearchUnknown
    \/ ExtractCall

\* a call is one sequential thread of control: while a statement is left to
\* run, the next one runs (every check() is taken to return)
SpecSearch == SearchInit /\ [][SearchNext]_vars /\ WF_vars(SearchNext)

\* the solver's contract on the assignments of a SAT answer: each satisfies
\* every constraint added before the check(), and in the linear search the
\* constraint pushed for the current target
SolverContract ==
    status = "SAT" =>
        \A a \in model :
            /\ add_core_constraints(N, backend, a.sched)
            /\ mode = "optimize" => balance_constraints(N, backend, a)
            /\ (mode = "optimize" /\ backend = "z3") =>
                   constrain_total_imbalance(N, a.diff, target)

----------------------------------------------------------------------------
(* C1 *)

\* the unordered pair of teams of match m in a catalogue
PairOf(cat, m) == {cat[<<m, 0>>], cat[<<m, 1>>]}

\* C1: for every even N >= 4 the returned catalogue has exactly (N-1)*N/2
\* matches with ids 0 .. (N-1)*N/2 - 1, id = week*(N/2) + period; each match
\* pairs two distinct teams of [0, N); the unordered pairs are pairwise
\* distinct, so every pair of teams meets exactly once.
C1_Skeleton ==
    pc = "ret" =>
        /\ DOMAIN matches = MatchIds(N) \X Roles
        /\ Cardinality(MatchIds(N)) = ((N - 1) * N) \div 2
        /\ \A w \in Weeks(N), p \in Periods(N), s \in Roles :
               matches[<<w * (N \div 2) + p, s>>] = rb[<<p, w, s>>]
        /\ \A m \in MatchIds(N) :
               /\ matches[<<m, 0>>] \in Teams(N)
               /\ matches[<<m, 1>>] \in Teams(N)
               /\ matches[<<m, 0>>] # matches[<<m, 1>>]
        /\ \A m1, m2 \in MatchIds(N) :
               m1 # m2 => PairOf(matches, m1) # PairOf(matches, m2)
        /\ \A t1, t2 \in Teams(N) :
               t1 # t2 =>
                 Cardinality({m \in MatchIds(N) : PairOf(matches, m) = {t1, t2}}) = 1
        /\ matches = generate_rb_and_flattened(N)

\* the generator has returned for the largest N of the bound, with a period
\* >= 1 match in the catalogue
C1_Witness ==
    /\ pc = "ret"
    /\ N >= 8
    /\ Cardinality(DOMAIN matches) = N * (N - 1)
    /\ matches[<<1, 0>>] = 1 /\ matches[<<1, 1>>] = N - 2

----------------------------------------------------------------------------
(* C2, C3, C4: the core constraints *)

\* the number of true match booleans of team t over a set of slots
Appearances(a, slots, t) ==
    Cardinality({x \in slots \X MatchIds(N) :
                    x[2] \in a.sched[x[1]] /\ t \in PairOf(matches, x[2])})

\* C2: in every assignment a check() accepted, built on the constraints of
\* add_core_constraints, every team appears in exactly one match of each
\* week and in at most two matches of each period over all weeks.
C2_WeekAndPeriod ==
    status = "SAT" =>
        \A a \in model :
            /\ \A w \in Weeks(N), t \in Teams(N) :
                   Appearances(a, Periods(N) \X {w}, t) = 1
            /\ \A p \in Periods(N), t \in Teams(N) :
                   Appearances(a, {p} \X Weeks(N), t) <= 2

\* satisfy got a model for N = 6 in which some team fills its two
\* appearances of a period
C2_Witness ==
    /\ mode = "satisfy" /\ N = 6 /\ status = "SAT" /\ pc = "extract"
    /\ \E a \in model : \E p \in Periods(N), t \in Teams(N) :
           Appearances(a, {p} \X Weeks(N), t) = 2

\* C3: in every assignment the core constraints accept, slot -> selected
\* match id is a bijection between the (N/2)*(N-1) slots and the match ids,
\* and the match of a slot of week w lies in [w*(N/2), (w+1)*(N/2)).
C3_Bijection ==
    status = "SAT" =>
        \A a \in model :
            /\ DOMAIN a.sched = Slots(N)
            /\ \A sl \in Slots(N) : Cardinality(a.sched[sl]) = 1
            /\ \A m \in MatchIds(N) :
                   Cardinality({sl \in Slots(N) : m \in a.sched[sl]}) = 1
            /\ Cardinality(Slots(N)) = Cardinality(MatchIds(N))
            /\ \A sl \in Slots(N) : \A m \in a.sched[sl] :
                   sl[2] * (N \div 2) <= m /\ m < (sl[2] + 1) * (N \div 2)

\* the ortools backend accepted, for N = 6, a placement that is not the
\* skeleton's own order: period 0 of week 1 holds the week's last match
C3_Witness ==
    /\ N = 6 /\ backend = "ortools" /\ status = "SAT"
    /\ \E a \in model : a.sched[<<0, 1>>] = {5}

----------------------------------------------------------------------------
(* C5 .. C10: optimize.  No call of optimize returns a solution (the call  *)
(* of extract_solution raises), so the statements are made of the          *)
(* assignment optimize hands to extract_solution, at pc = "extract".       *)

\* the team at home (home = TRUE) or away in a slot of an extracted solution
TeamAtRole(n, sol, sl, home) ==
    LET m == sol.solution[sl]
    IN IF sol.home_first[sl] = home THEN match_pairs[n][<<m, 0>>]
                                    ELSE match_pairs[n][<<m, 1>>]

\* the number of slots of the extracted schedule in which t is home or away
SlotTally(n, sol, t, home) ==
    Cardinality({sl \in DOMAIN sol.solution : TeamAtRole(n, sol, sl, home) = t})

\* the same tally taken from the [home, away] matrix of format_json, whose
\* teams are numbered from 1
MatrixTally(n, mat, t, home) ==
    Cardinality({sl \in Slots(n) : mat[sl[1]][sl[2]][IF home THEN 1 ELSE 2] = t + 1})

\* C5 as stated: in the solution of optimize(N), for every team the reported
\* home count plus the reported away count is N-1, and each reported count
\* is the number of slots in which the team is home (away) under the
\* returned orientation.
C5_Stated ==
    (mode = "optimize" /\ pc = "extract") =>
        \A a \in model :
            LET sol == extract_solution(N, a) IN
            \A t \in Teams(N) :
                /\ t \in DOMAIN sol.home_counts /\ t \in DOMAIN sol.away_counts
                /\ sol.home_counts[t] + sol.away_counts[t] = N - 1
                /\ sol.home_counts[t] = SlotTally(N, sol, t, TRUE)
                /\ sol.away_counts[t] = SlotTally(N, sol, t, FALSE)

\* C6 as stated: the tallies recomputed from the [home, away] matrix are the
\* reported home_counts and away_counts of all N teams, and the sum over the
\* teams of |home - away| of that tally is the reported imbalance.
C6_Stated ==
    (mode = "optimize" /\ pc = "extract") =>
        \A a \in model :
            LET sol == extract_solution(N, a)
                mat == format_json(N, sol)
                h == [t \in Teams(N) |-> MatrixTally(N, mat, t, TRUE)]
                w == [t \in Teams(N) |-> MatrixTally(N, mat, t, FALSE)]
            IN /\ \A t \in Teams(N) :
                      /\ t \in DOMAIN sol.home_counts /\ sol.home_counts[t] = h[t]
                      /\ t \in DOMAIN sol.away_counts /\ sol.away_counts[t] = w[t]
               /\ SumValues([t \in Teams(N) |-> Abs(h[t] - w[t])]) = sol.imbalance

\* C7 as stated: for even N >= 6 every assignment that satisfies the
\* constraint set optimize has built has a sum of per-team differences of at
\* least N.
C7_Stated ==
    (mode = "optimize" /\ N % 2 = 0 /\ N >= 6 /\ pc # "start") =>
        \A a \in BalanceModels[N][backend] : SumDiff(N, a.diff, 0) >= N

\* C8 as stated: for N = 6, on either backend, with the solver answering
\* the first check() (z3: SAT at the first target; ortools: OPTIMAL), the
\* solution has imbalance 6 and per-team differences that sum to 6.
C8_Stated ==
    (/\ mode = "optimize" /\ N = 6 /\ pc = "extract"
     /\ backend = "z3" => target = N
     /\ backend = "ortools" => last_status = "OPTIMAL") =>
        \A a \in model :
            LET sol == extract_solution(N, a)
            IN sol.imbalance = 6 /\ SumDiff(N, a.diff, 0) = 6

\* C9 as stated: on z3 the target at which the search stops with a solution
\* is the solution's imbalance and the minimum: no assignment of the base
\* constraint set has a smaller sum of per-team differences.
C9_Stated ==
    (mode = "optimize" /\ backend = "z3" /\ pc = "extract") =>
        /\ \A a \in model : extract_solution(N, a).imbalance = target
        /\ \A o \in BalanceModels[N]["z3"] : SumDiff(N, o.diff, 0) >= target

\* C10 as stated: on ortools a solution comes only with status OPTIMAL, and
\* its imbalance is the minimum of the objective over the assignments of the
\* constraint set.
C10_Stated ==
    (mode = "optimize" /\ backend = "ortools" /\ pc = "extract") =>
        /\ last_status = "OPTIMAL"
        /\ \A a \in model : \A o \in BalanceModels[N]["ortools"] :
               extract_solution(N, a).imbalance <= ObjectiveValue(o)

\* run.main lines 113-120 and 126-133: the record written when no solution
\* is stored (None is modelled by the empty set)
failure_record == [time |-> 300, optimal |-> FALSE, obj |-> {}, sol |-> {}]

\* run.main, the record stored under "Z3_Decision" when satisfy(N) does not
\* deliver a solution: "raised" is the except branch, "none" the else branch
\* of "if solution is not None", and "tuple" the value satisfy really returns,
\* (None, elapsed): it is not None, format_json fails on it and the except
\* branch writes the record
decision_record(outcome) ==
    CASE outcome = "none"   -> failure_record
      [] outcome = "raised" -> failure_record
      [] outcome = "tuple"  -> failure_record

\* what a call that ended without a solution hands to its caller: the
\* returned value, the message it printed and the record run.main derives
NoAnswer == [value |-> result, printed |-> printed, record |-> decision_record("tuple")]

\* the same for a call whose every check() answered 'UNSAT'; the z3 search
\* prints nothing when the loop runs out (solve.py line 352-353)
ProvenUnsat(m, b) ==
    [value   |-> NoSolutionOutcome(m, "UNSAT").value,
     printed |-> IF m = "optimize" /\ b = "z3" THEN "none"
                 ELSE NoSolutionOutcome(m, "UNSAT").printed,
     record  |-> decision_record("tuple")]

\* C11 as stated: a call whose last check() answered 'UNKNOWN' hands its
\* caller a value, message or record that differs from the one of a call
\* whose checks were all answered 'UNSAT'.
C11_Stated ==
    (pc = "returned" /\ status = "UNKNOWN") => NoAnswer # ProvenUnsat(mode, backend)

MaxApiCalls == 5

\* create_solver(backend): a Z3Backend holds an empty solver; an
\* ORToolsBackend an empty model, an empty _constraint_stack and no objective
ApiInit ==
    /\ N = MaxN /\ mode = "api" /\ pc = "api"
    /\ backend \in Backends
    /\ it = 0 /\ rb = Empty /\ matches = Empty
    /\ scopes = <<{}>>
    /\ constraint_stack = <<>>
    /\ objective = FALSE
    /\ ret = [call |-> "none", value |-> "none"]
    /\ status = "none" /\ last_status = "none" /\ model = {} /\ target = 0
    /\ exc = "none" /\ result = {} /\ printed = "none" /\ calls = 0
    /\ instances = <<>>
    /\ bvec = <<>> /\ karg = 0 /\ free = {} /\ files = <<>> /\ executed = {}

\* one more constraint reaches the solver: Z3Backend.add_constraint puts it
\* in the innermost scope; on ortools the encoding functions add it to
\* solver.model, which has no scopes
ApiAdd ==
    /\ pc = "api" /\ calls < MaxApiCalls
    /\ scopes' = [scopes EXCEPT ![Len(scopes)] = @ \cup {<<"c", calls>>}]
    /\ ret' = [call |-> "add", value |-> "None"]
    /\ calls' = calls + 1
    /\ UNCHANGED <<N, backend, mode, pc, it, rb, matches, objective, status,
                   last_status, model, target, exc, result, printed,
                   constraint_stack, instances>>
    /\ UNCHANGED moreVars

\* push(): Z3Backend opens a scope; ORToolsBackend appends the number of
\* constraints of the model to _constraint_stack.  Both return None.
ApiPush ==
    /\ pc = "api" /\ calls < MaxApiCalls
    /\ IF backend = "z3"
       THEN /\ scopes' = z3_push(scopes, {})
            /\ UNCHANGED constraint_stack
       ELSE /\ constraint_stack' = Append(constraint_stack, Cardinality(Active(scopes)))
            /\ UNCHANGED scopes
    /\ ret' = [call |-> "push", value |-> "None"]
    /\ calls' = calls + 1
    /\ UNCHANGED <<N, backend, mode, pc, it, rb, matches, objective, status,
                   last_status, model, target, exc, result, printed, instances>>
    /\ UNCHANGED moreVars

\* pop(): Z3Backend drops the innermost scope (callers pop only a scope they
\* pushed); ORToolsBackend drops the last entry of _constraint_stack when
\* there is one and removes nothing from the model.  Both return None.
ApiPop ==
    /\ pc = "api" /\ calls < MaxApiCalls
    /\ backend = "z3" => Len(scopes) > 1
    /\ IF backend = "z3"
       THEN /\ scopes' = z3_pop(scopes)
            /\ UNCHANGED constraint_stack
       ELSE /\ constraint_stack' = IF constraint_stack # <<>>
                                   THEN SubSeq(constraint_stack, 1, Len(constraint_stack) - 1)
                                   ELSE constraint_stack
            /\ UNCHANGED scopes
    /\ ret' = [call |-> "pop", value |-> "None"]
    /\ calls' = calls + 1
    /\ UNCHANGED <<N, backend, mode, pc, it, rb, matches, objective, status,
                   last_status, model, target, exc, result, printed, instances>>
    /\ UNCHANGED moreVars

\* minimize(objective): Z3Backend returns None and touches nothing;
\* ORToolsBackend stores the objective and returns it
ApiMinimize ==
    /\ pc = "api" /\ calls < MaxApiCalls
    /\ objective' = IF backend = "ortools" THEN TRUE ELSE objective
    /\ ret' = [call |-> "minimize",
               value |-> IF backend = "ortools" THEN "objective" ELSE "None"]
    /\ calls' = calls + 1
    /\ UNCHANGED <<N, backend, mode, pc, it, rb, matches, scopes, status,
                   last_status, model, target, exc, result, printed,
                   constraint_stack, instances>>
    /\ UNCHANGED moreVars

\* add_constraint(False): Z3Backend hands False to the solver;
\* ORToolsBackend calls NewBoolVar('false') twice, which makes two variables
\* of the same name, and adds "first == 1" and "second == 0"
ApiAddFalse ==
    /\ pc = "api" /\ calls < MaxApiCalls
    /\ scopes' = [scopes EXCEPT ![Len(scopes)] =
                     IF backend = "z3"
                     THEN @ \cup {<<"false">>}
                     ELSE @ \cup {<<"eq", <<"false", calls, 1>>, 1>>,
                                  <<"eq", <<"false", calls, 2>>, 0>>}]
    /\ ret' = [call |-> "add_false", value |-> "None"]
    /\ calls' = calls + 1
    /\ UNCHANGED <<N, backend, mode, pc, it, rb, matches, objective, status,
                   last_status, model, target, exc, result, printed,
                   constraint_stack, instances>>
    /\ UNCHANGED moreVars

\* some assignment satisfies a set of constraints: False is not among them
\* and no variable is required to equal both 1 and 0 (a constraint added by
\* ApiAdd is a literal of a variable of its own)
Satisfiable(cs) ==
    /\ <<"false">> \notin cs
    /\ ~\E c \in cs, d \in cs :
          /\ c[1] = "eq" /\ d[1] = "eq"
          /\ c[2] = d[2] /\ c[3] # d[3]

\* the answers of check(): 'SAT' (z3 sat; ortools OPTIMAL or FEASIBLE) needs
\* a satisfying assignment, 'UNSAT' that there is none; otherwise 'UNKNOWN'
CheckAnswers(cs) ==
    (IF Satisfiable(cs) THEN {"SAT"} ELSE {"UNSAT"}) \cup {"UNKNOWN"}

\* check(): solve the constraints in force and map the solver's status
ApiCheck ==
    /\ pc = "api" /\ calls < MaxApiCalls
    /\ status' \in CheckAnswers(Active(scopes))
    /\ last_status' = IF backend = "ortools"
                      THEN CASE status' = "SAT" -> "OPTIMAL"
                             [] status' = "UNSAT" -> "INFEASIBLE"
                             [] OTHER -> "UNKNOWN"
                      ELSE last_status
    /\ ret' = [call |-> "check", value |-> status']
    /\ calls' = calls + 1
    /\ UNCHANGED <<N, backend, mode, pc, it, rb, matches, scopes, objective,
                   model, target, exc, result, printed,
                   constraint_stack, instances>>
    /\ UNCHANGED moreVars

ApiNext == ApiAdd \/ ApiPush \/ ApiPop \/ ApiMinimize \/ ApiAddFalse \/ ApiCheck

SpecApi == ApiInit /\ [][ApiNext]_vars

\* C13 as stated: minimize on the Z3Backend does not return normally: the
\* call ends with an error raised.
C13_Stated ==
    (backend = "z3" /\ ret.call = "minimize") => exc # "none"

\* C14 as stated: push and pop on the ORToolsBackend do not return normally;
\* after push, added constraints and pop the call has raised an error rather
\* than left the added constraints in the model.
C14_Stated ==
    (backend = "ortools" /\ ret.call \in {"push", "pop"}) => exc # "none"

\* C15: for odd N, satisfy and optimize raise the assertion error with the
\* skeleton not generated, no solver state created and no check() made.
C15_OddRejected ==
    N % 2 # 0 =>
        /\ pc \in {"start", "raised"}
        /\ pc = "raised" => exc = "AssertionError"
        /\ rb = Empty /\ matches = Empty
        /\ scopes = <<>> /\ objective = FALSE /\ calls = 0

\* an odd N was rejected
C15_Witness ==
    N % 2 # 0 /\ pc = "raised" /\ exc = "AssertionError"

\* C16 as stated: satisfy takes N = 4 without an input error, and optimize
\* rejects every even N below 6 with an input error before any constraint
\* is built.
C16_Stated ==
    /\ (mode = "satisfy" /\ N = 4) => exc # "AssertionError"
    /\ (mode = "optimize" /\ N % 2 = 0 /\ N < 6) =>
           /\ pc \in {"start", "raised"}
           /\ scopes = <<>> /\ calls = 0

\* C17: the z3 search makes at most N*(N-1) - N + 1 check() calls, a search
\* that returns has found no candidate satisfiable, made exactly that many
\* calls and returns None, and every search comes to an end.
C17_Terminates ==
    /\ []((mode = "optimize" /\ backend = "z3") => calls <= N * (N - 1) - N + 1)
    /\ []((mode = "optimize" /\ backend = "z3" /\ pc = "returned") =>
              /\ result = {} /\ model = {}
              /\ calls = N * (N - 1) - N + 1
              /\ status \in {"UNSAT", "UNKNOWN"})
    /\ (mode = "optimize" /\ backend = "z3") => <>(pc \in {"returned", "raised"})

\* the search ran out of candidates and returned None
C17_Witness ==
    /\ mode = "optimize" /\ backend = "z3" /\ pc = "returned"
    /\ result = {} /\ calls = N * (N - 1) - N + 1

\* ---------------------------------------------------------------------
\* The build of satisfy, written out: the variables it declares and the
\* constraints it adds, in order, on two backend objects created one after
\* the other in the same process.

\* f'midx_{p}_{w}_val_{i}', the name encode_integer_onehot gives a variable
midx_name(p, w, i) == <<"midx", p, w, "val", i>>

\* a declaration that renames a variable whose name is already taken
bool_name_fresh(declared, name) ==
    IF name \in declared THEN <<"fresh", name>> ELSE name

\* Bool(name) / model.NewBoolVar(name): the variable carries the name it is
\* given, whether or not the name is already in use
bool_name(declared, name) == name

\* the names already declared where a new variable is created: z3 keeps one
\* context for the whole process, an ORToolsBackend has its own CpModel
Declared(b, insts) ==
    IF b = "z3"
    THEN UNION {{insts[k].vars[j] : j \in 1..Len(insts[k].vars)} : k \in 1..Len(insts)}
    ELSE {insts[Len(insts)].vars[j] : j \in 1..Len(insts[Len(insts)].vars)}

\* the passes of the loops of satisfy and add_core_constraints, in order
BuildSteps(n) ==
    LET P  == n \div 2
        W  == n - 1
        M  == P * W
        pw == [k \in 1..(P * W) |-> <<(k - 1) \div W, (k - 1) % W>>]
        wp == [k \in 1..(P * W) |-> <<(k - 1) % P, (k - 1) \div P>>]
    IN    [k \in 1..(P * W) |-> <<"vars", pw[k][1], pw[k][2]>>]
       \o [k \in 1..(P * W) |-> <<"eo", pw[k][1], pw[k][2]>>]
       \o <<(<<"sym", 0, 0>>)>>
       \o [k \in 1..M |-> <<"alldiff", k - 1, 0>>]
       \o [k \in 1..(P * W) |-> <<"range", wp[k][1], wp[k][2]>>]
       \o [k \in 1..(P * n) |-> <<"amt2", (k - 1) \div n, (k - 1) % n>>]

\* exactly_one(bool_vars, solver, name) as the constraints it adds
eo_added(b, xs) ==
    IF xs = <<>> THEN <<>>
    ELSE IF b = "ortools" THEN <<(<<"AddExactlyOne", xs>>)>>
    ELSE <<(<<"add", "And(Or, pairwise Not(And))", xs>>)>>

\* the names s_{name}_{i}_{j} at_most_k_seq_z3 declares for len(xs) = len
seq_aux(period, team, len) ==
    [k \in 1..((len - 1) * 2) |->
        <<"s", "amt2", team, period, (k - 1) \div 2, (k - 1) % 2>>]

\* what one pass declares and adds: [vars |-> names, cons |-> constraints]
step_effect(n, b, pairs, declared, step) ==
    LET P  == n \div 2
        W  == n - 1
        M  == P * W
        nm(x) == bool_name(declared, x)
        row(pp, ww) == [k \in 1..M |-> nm(midx_name(pp, ww, k - 1))]
        pw == [k \in 1..(P * W) |-> <<(k - 1) \div W, (k - 1) % W>>]
    IN CASE step[1] = "vars" ->
              [vars |-> row(step[2], step[3]), cons |-> <<>>]
         [] step[1] = "eo" ->
              [vars |-> <<>>, cons |-> eo_added(b, row(step[2], step[3]))]
         [] step[1] = "sym" ->
              [vars |-> <<>>,
               cons |-> IF b = "ortools" THEN <<(<<"Add == 1", nm(midx_name(0, 0, 0))>>)>>
                        ELSE <<(<<"add", nm(midx_name(0, 0, 0))>>)>>]
         [] step[1] = "alldiff" ->
              [vars |-> <<>>,
               cons |-> eo_added(b, [k \in 1..(P * W) |->
                            nm(midx_name(pw[k][1], pw[k][2], step[2]))])]
         [] step[1] = "range" ->
              LET pp == step[2]
                  ww == step[3]
                  outside(m) == ~(ww * P <= m /\ m < (ww + 1) * P)
                  ms == SelectSeq([k \in 1..M |-> k - 1], outside)
              IN [vars |-> <<>>,
                  cons |-> [k \in 1..Len(ms) |->
                              IF b = "ortools"
                              THEN <<"Add == 0", nm(midx_name(pp, ww, ms[k]))>>
                              ELSE <<"add", "Not", nm(midx_name(pp, ww, ms[k]))>>]]
         [] step[1] = "amt2" ->
              LET period == step[2]
                  team == step[3]
                  has(m) == pairs[<<m, 0>>] = team \/ pairs[<<m, 1>>] = team
                  ms == SelectSeq([k \in 1..M |-> k - 1], has)
                  xs == [k \in 1..Len(ms) |-> nm(midx_name(period, ms[k] \div P, ms[k]))]
                  aux == [k \in 1..((Len(xs) - 1) * 2) |->
                             bool_name(declared, seq_aux(period, team, Len(xs))[k])]
              IN IF Len(xs) <= 2 THEN [vars |-> <<>>, cons |-> <<>>]
                 ELSE IF b = "ortools"
                 THEN [vars |-> <<>>, cons |-> <<(<<"Add sum <= 2", xs>>)>>]
                 ELSE [vars |-> aux, cons |-> <<(<<"add", "seq", xs, aux>>)>>]

BuildInit ==
    /\ N \in SolveNs /\ backend \in Backends
    /\ mode = "build" /\ pc = "create"
    /\ it = 0 /\ rb = Empty /\ matches = Empty
    /\ scopes = <<>> /\ constraint_stack = <<>> /\ objective = FALSE
    /\ ret = [call |-> "none", value |-> "none"]
    /\ status = "none" /\ last_status = "none" /\ model = {} /\ target = 0
    /\ exc = "none" /\ result = {} /\ printed = "none" /\ calls = 0
    /\ instances = <<>>
    /\ bvec = <<>> /\ karg = 0 /\ free = {} /\ files = <<>> /\ executed = {}

\* generate_rb_and_flattened and create_solver(backend): a fresh backend
\* object with no variable and no constraint
BuildCreate ==
    /\ pc = "create"
    /\ Len(instances) < 2
    /\ matches' = generate_rb_and_flattened(N)
    /\ instances' = Append(instances, [vars |-> <<>>, cons |-> <<>>])
    /\ it' = 0
    /\ pc' = "build"
    /\ UNCHANGED <<N, backend, mode, rb, constraint_stack, ret>>
    /\ UNCHANGED solverVars
    /\ UNCHANGED moreVars

\* one pass of a loop of the build on the newest backend object
BuildStep ==
    /\ pc = "build"
    /\ it < Len(BuildSteps(N))
    /\ LET e == step_effect(N, backend, matches, Declared(backend, instances),
                            BuildSteps(N)[it + 1])
           k == Len(instances)
       IN instances' = [instances EXCEPT ![k] =
                           [vars |-> @.vars \o e.vars, cons |-> @.cons \o e.cons]]
    /\ it' = it + 1
    /\ UNCHANGED <<N, backend, mode, pc, rb, matches, constraint_stack, ret>>
    /\ UNCHANGED solverVars
    /\ UNCHANGED moreVars

\* the build is complete; the next call starts from the top
BuildDone ==
    /\ pc = "build"
    /\ it = Len(BuildSteps(N))
    /\ pc' = IF Len(instances) < 2 THEN "create" ELSE "built"
    /\ UNCHANGED <<N, backend, mode, it, rb, matches, constraint_stack, ret, instances>>
    /\ UNCHANGED solverVars
    /\ UNCHANGED moreVars

BuildNext == BuildCreate \/ BuildStep \/ BuildDone

SpecBuild == BuildInit /\ [][BuildNext]_vars

\* s is an initial part of q
IsPrefix(s, q) == Len(s) <= Len(q) /\ SubSeq(q, 1, Len(s)) = s

Extracted(a) ==
    IF mode = "satisfy" THEN extract_solution_decision(N, a) ELSE extract_solution(N, a)

\* C19: for the assignment handed to extract_solution, the matrix of
\* format_json has N/2 rows and N-1 columns; entry (p, w) is [home+1, away+1]
\* of the match selected at (p, w), home being the first-listed team unless
\* an orientation exists and is false; values lie in 1..N and home # away.
C19_Matrix ==
    pc = "extract" =>
        \A a \in model :
            LET mat == format_json(N, Extracted(a)) IN
            /\ DOMAIN mat = 0..(N \div 2 - 1)
            /\ \A p \in DOMAIN mat :
                   /\ DOMAIN mat[p] = 0..(N - 2)
                   /\ \A w \in DOMAIN mat[p] :
                          \E m \in a.sched[<<p, w>>] :
                              LET first  == matches[<<m, 0>>]
                                  second == matches[<<m, 1>>]
                                  swap   == mode = "optimize" /\ ~a.home_first[<<p, w>>]
                              IN /\ a.sched[<<p, w>>] = {m}
                                 /\ mat[p][w] = IF swap THEN <<second + 1, first + 1>>
                                                ELSE <<first + 1, second + 1>>
                                 /\ mat[p][w][1] \in 1..N /\ mat[p][w][2] \in 1..N
                                 /\ mat[p][w][1] # mat[p][w][2]

\* an assignment of optimize with a slot whose orientation is false, so that
\* the second-listed team of its match is reported home
C19_Witness ==
    /\ pc = "extract" /\ mode = "optimize" /\ N = 6
    /\ \E a \in model : \E sl \in Slots(N) :
           /\ ~a.home_first[sl]
           /\ \E m \in a.sched[sl] :
                  format_json(N, Extracted(a))[sl[1]][sl[2]][1] = matches[<<m, 1>>] + 1

\* the longest list of booleans the encodings are compared on
MaxVec == 5

\* the valuations of a list of at most MaxVec booleans
Valuations == UNION {[1..len -> BOOLEAN] : len \in 0..MaxVec}

\* the encodings used by add_core_constraints accept the same valuations on
\* both backends
EncodingsAgree ==
    \A X \in Valuations :
        /\ at_most_one("z3", X) <=> at_most_one("ortools", X)
        /\ exactly_one("z3", X) <=> exactly_one("ortools", X)
        /\ at_most_k("z3", X, 2) <=> at_most_k("ortools", X, 2)

\* C20: once the constraints are built, the match-index assignments that
\* add_core_constraints accepts are the same on z3 (pairwise at-most-one,
\* sequential counter) and on ortools (AddExactlyOne, sum <= 2).
C20_BackendIndependent ==
    (N \in SolveNs /\ pc # "start") =>
        /\ CoreModels[N]["z3"] = CoreModels[N]["ortools"]
        /\ EncodingsAgree

\* the constraints are built for an N whose accepted set is not empty
C20_Witness ==
    /\ mode = "satisfy" /\ pc = "check" /\ N \in SolveNs
    /\ CoreModels[N][backend] # {}
    /\ \E X \in Valuations : CountTrue(X) = 3 /\ ~at_most_k(backend, X, 2)

\* ---------------------------------------------------------------------
\* The encoding functions on their own: one call of a function of
\* sat_encodings.py on a z3 (or ortools) solver that holds nothing else,
\* with the booleans it is called on fixed to a valuation, followed by
\* check().  The solver chooses the variables the call leaves free.

\* the longest list at_most_k and exactly_one are called on, and the largest k
EncLen == 4

EncK == 2

\* the longest indicator list of encode_exact_count
CountLen == 3

\* the largest number of teams of constrain_total_imbalance
TotN == 3

BoolVectors(maxlen) == UNION {[1..len -> BOOLEAN] : len \in 0..maxlen}

EncOps == {"at_most_k", "exactly_one", "exact_count", "total_imbalance"}

\* the values of the auxiliary booleans s[i][j] of at_most_k_seq_z3 for a
\* list of n booleans: row i is the set of the j with s[i-1][j-1] true
AuxAssignments(n, k) == [1..(n - 1) -> SUBSET (1..k)]

\* the formula without "Implies(s[n - 2][k - 1], Not(bool_vars[n - 1]))"
seq_formula_no_last(X, k, s) ==
    IF Len(X) <= k THEN TRUE
    ELSE IF k = 0 THEN \A j \in 1..Len(X) : ~X[j]
    ELSE LET n == Len(X) IN
         /\ X[1] => 1 \in s[1]
         /\ \A j \in 2..k : j \notin s[1]
         /\ \A i \in 2..(n - 1) :
               /\ (X[i] \/ 1 \in s[i - 1]) => 1 \in s[i]
               /\ \A j \in 2..k :
                     ((X[i] /\ (j - 1) \in s[i - 1]) \/ j \in s[i - 1]) => j \in s[i]
               /\ k \in s[i - 1] => ~X[i]

\* the formula at_most_k_seq_z3 returns, under X and the auxiliaries s
seq_formula(X, k, s) ==
    IF Len(X) <= k THEN TRUE
    ELSE IF k = 0 THEN \A j \in 1..Len(X) : ~X[j]
    ELSE SeqClauses(X, k, s)

\* the auxiliaries the formula has
seq_aux_choices(X, k) ==
    IF Len(X) > k /\ k >= 1 THEN AuxAssignments(Len(X), k) ELSE {<<>>}

\* the constraints of one k with only "the indicators imply count_vars[k]"
exact_count_case_one_way(Ind, C, k, sa, sm) ==
    LET n == Len(Ind)
        allfalse == \A j \in 1..n : ~Ind[j]
        alltrue == \A j \in 1..n : Ind[j]
        both == seq_formula(NotVec(Ind), n - k, sa) /\ seq_formula(Ind, k, sm)
    IN IF k > n THEN k \notin C
       ELSE IF k = 0 THEN n > 0 => (allfalse => 0 \in C)
       ELSE IF k = n THEN alltrue => k \in C
       ELSE both => k \in C

\* encode_exact_count, z3 path, for one k: the two implications between
\* count_vars[k] and the indicators; sa and sm are the auxiliaries of the
\* at-least and of the at-most formula, which both implications share
exact_count_case(Ind, C, k, sa, sm) ==
    LET n == Len(Ind)
        allfalse == \A j \in 1..n : ~Ind[j]
        alltrue == \A j \in 1..n : Ind[j]
        both == seq_formula(NotVec(Ind), n - k, sa) /\ seq_formula(Ind, k, sm)
    IN IF k > n THEN k \notin C
       ELSE IF k = 0 THEN /\ 0 \in C => allfalse
                          /\ n > 0 => (allfalse => 0 \in C)
       ELSE IF k = n THEN /\ k \in C => alltrue
                          /\ alltrue => k \in C
       ELSE /\ k \in C => both
            /\ both => k \in C

\* encode_exact_count, z3 path: some value of the auxiliaries satisfies the
\* constraints of every k (each k has auxiliaries of its own)
exact_count_z3(Ind, C, max_count) ==
    \A k \in 0..max_count :
        \E sa \in seq_aux_choices(NotVec(Ind), Len(Ind) - k) :
            \E sm \in seq_aux_choices(Ind, k) :
                exact_count_case(Ind, C, k, sa, sm)

\* the one-hot difference variables of a tuple of per-team differences
DiffOf(v) == [t \in 0..(Len(v) - 1) |-> {v[t + 1]}]

\* what the solver may choose after the call
EncChoices(op, X, k) ==
    CASE op = "at_most_k"   -> seq_aux_choices(X, k)
      [] op = "exact_count" -> SUBSET (0..k)
      [] OTHER              -> {<<>>}

\* the constraints the call has added hold under X and the choice f
EncHolds(op, b, X, k, f) ==
    CASE op = "at_most_k"       -> seq_formula(X, k, f)
      [] op = "exactly_one"     -> exactly_one(b, X)
      [] op = "exact_count"     -> /\ exactly_one(b, OneHotVec(f, k))
                                   /\ exact_count_z3(X, f, k)
      [] op = "total_imbalance" -> constrain_total_imbalance(Len(X), DiffOf(X), k)

EncInit ==
    /\ mode \in EncOps
    /\ backend \in (IF mode = "exactly_one" THEN Backends ELSE {"z3"})
    /\ pc = "call"
    /\ CASE mode = "at_most_k" ->
              bvec \in BoolVectors(EncLen) /\ karg \in 0..EncK
         [] mode = "exactly_one" ->
              bvec \in BoolVectors(EncLen) /\ karg = 0
         [] mode = "exact_count" ->
              bvec \in BoolVectors(CountLen) /\ karg \in 0..(CountLen + 1)
         [] mode = "total_imbalance" ->
              /\ bvec \in UNION {[1..n -> 0..(n - 1)] : n \in 2..TotN}
              /\ karg \in 0..(Len(bvec) * (Len(bvec) - 1) + 1)
    /\ N = Len(bvec)
    /\ it = 0 /\ rb = Empty /\ matches = Empty
    /\ scopes = <<>> /\ constraint_stack = <<>> /\ objective = FALSE
    /\ ret = [call |-> "none", value |-> "none"]
    /\ status = "none" /\ last_status = "none" /\ model = {} /\ target = 0
    /\ exc = "none" /\ result = {} /\ printed = "none" /\ calls = 0
    /\ instances = <<>> /\ free = {} /\ files = <<>> /\ executed = {}

\* check() answers sat: some value of the free variables satisfies the
\* constraints; the model holds one such value
EncSat ==
    /\ pc = "call"
    /\ \E f \in EncChoices(mode, bvec, karg) :
          /\ EncHolds(mode, backend, bvec, karg, f)
          /\ free' = {f}
    /\ status' = "SAT"
    /\ calls' = calls + 1
    /\ pc' = "done"
    /\ UNCHANGED <<N, backend, mode, it, rb, matches, scopes, objective, last_status,
                   model, target, exc, result, printed>>
    /\ UNCHANGED <<extraVars, bvec, karg, files, executed>>

\* check() answers unsat: no value of the free variables does
EncUnsat ==
    /\ pc = "call"
    /\ \A f \in EncChoices(mode, bvec, karg) : ~EncHolds(mode, backend, bvec, karg, f)
    /\ status' = "UNSAT"
    /\ calls' = calls + 1
    /\ pc' = "done"
    /\ UNCHANGED <<N, backend, mode, it, rb, matches, scopes, objective, last_status,
                   model, target, exc, result, printed>>
    /\ UNCHANGED <<extraVars, bvec, karg, free, files, executed>>

EncNext == EncSat \/ EncUnsat

SpecEnc == EncInit /\ [][EncNext]_vars

\* C21: with X fixed, at_most_k_seq_z3(X, k) is satisfied by some value of
\* its auxiliaries iff at most k of X are true; a satisfying value found by
\* the solver goes with at most k true; for k = 0 the formula holds iff all
\* of X are false and for len(X) <= k it is true.
C21_SequentialCounter ==
    (mode = "at_most_k" /\ pc = "done") =>
        /\ status = "SAT" <=> CountTrue(bvec) <= karg
        /\ status = "SAT" <=> at_most_k_seq_z3(bvec, karg)
        /\ \A s \in free : seq_formula(bvec, karg, s) /\ CountTrue(bvec) <= karg
        /\ karg = 0 => (status = "SAT" <=> \A j \in 1..Len(bvec) : ~bvec[j])
        /\ Len(bvec) <= karg => status = "SAT"

\* a list longer than k >= 1 with exactly k true, accepted with auxiliaries
C21_Witness ==
    /\ mode = "at_most_k" /\ pc = "done" /\ status = "SAT"
    /\ karg >= 1 /\ Len(bvec) > karg /\ CountTrue(bvec) = karg
    /\ \E s \in free : Len(s) = Len(bvec) - 1

\* C22 as stated: after exactly_one(vars, solver) the solver accepts a
\* valuation of vars iff exactly one element is true, for every length of
\* vars, the empty list included (nothing accepted there).
C22_Stated ==
    (mode = "exactly_one" /\ pc = "done") =>
        (status = "SAT" <=> CountTrue(bvec) = 1)

\* C23 as stated: with count_vars one-hot, in every satisfying assignment
\* count_vars[k] is true iff exactly k indicators are true, for every k in
\* 0..max_count, and every valuation of the indicators extends to a
\* satisfying assignment.
C23_Stated ==
    (mode = "exact_count" /\ pc = "done") =>
        /\ \A C \in free : \A k \in 0..karg : k \in C <=> CountTrue(bvec) = k
        /\ status = "SAT"

\* C23, amended: in every satisfying assignment count_vars[k] is true iff
\* exactly k indicators are true, and a valuation of the indicators extends
\* to a satisfying assignment iff at most max_count of them are true.
C23_Amended ==
    (mode = "exact_count" /\ pc = "done") =>
        /\ \A C \in free : \A k \in 0..karg : k \in C <=> CountTrue(bvec) = k
        /\ status = "SAT" <=> CountTrue(bvec) <= karg
        /\ \A C \in free : encode_exact_count("z3", bvec, C, karg)

\* a list whose count falls in the case 0 < k < len(indicators)
C23_Witness ==
    /\ mode = "exact_count" /\ pc = "done" /\ status = "SAT"
    /\ 0 < CountTrue(bvec) /\ CountTrue(bvec) < Len(bvec) /\ karg > Len(bvec)
    /\ free = {{CountTrue(bvec)}}

\* the count channeling of the scheduling model agrees with the full
\* enumeration of the auxiliaries on every one-hot count vector
ExactCountAgrees ==
    (mode = "exact_count" /\ pc = "done") =>
        \A k \in 0..karg :
            encode_exact_count("z3", bvec, {k}, karg) <=> exact_count_z3(bvec, {k}, karg)

\* C24: in every assignment that satisfies the constraints of optimize,
\* every team has one home-count value h, one away-count value w and one
\* difference value d, and d = |h - w|.
C24_DiffChanneling ==
    (mode = "optimize" /\ pc = "extract") =>
        \A a \in model : \A t \in Teams(N) :
            \E h \in 0..(N - 1), w \in 0..(N - 1), d \in 0..(N - 1) :
                /\ a.home_count[t] = {h} /\ a.away_count[t] = {w} /\ a.diff[t] = {d}
                /\ d = (IF h >= w THEN h - w ELSE w - h)

\* an assignment in which some team is away more often than home
C24_Witness ==
    /\ mode = "optimize" /\ pc = "extract"
    /\ \E a \in model : \E t \in Teams(N) :
           \E h \in a.home_count[t], w \in a.away_count[t] :
               h < w /\ a.diff[t] = {w - h}

\* the sum of the coordinates of a tuple
RECURSIVE SeqSum(_)
SeqSum(v) == IF v = <<>> THEN 0 ELSE v[1] + SeqSum(Tail(v))

\* C25: for a tuple of per-team differences in [0, N-1]^N given by one-hot
\* variables, the constraint of constrain_total_imbalance (z3 path) holds
\* iff the tuple is among those find_combinations yields, which is iff its
\* coordinates sum to target; for target > N*(N-1) nothing is accepted.
C25_TotalImbalance ==
    (mode = "total_imbalance" /\ pc = "done") =>
        /\ status = "SAT" <=> SeqSum(bvec) = karg
        /\ status = "SAT" <=> find_combinations(N, karg, DiffOf(bvec), N, 0)
        /\ karg > N * (N - 1) => status = "UNSAT"

\* a tuple with a team at the largest difference, accepted at its sum
C25_Witness ==
    /\ mode = "total_imbalance" /\ pc = "done" /\ status = "SAT"
    /\ \E j \in 1..Len(bvec) : bvec[j] = N - 1
    /\ \E j \in 1..Len(bvec) : bvec[j] = 0
    /\ karg = SeqSum(bvec) /\ karg > 0

\* C26: the z3 linear search checks the candidates N, N+1, ..., N*(N-1) in
\* increasing order, one check() per candidate (the k-th check is made with
\* target N + k - 1 pushed); a check that is not SAT moves to the next
\* candidate, and after a SAT check no further check is made.
C26_SearchOrder ==
    [][(mode = "optimize" /\ backend = "z3") =>
          /\ calls' # calls =>
                /\ pc = "search" /\ calls' = calls + 1
                /\ target = N + calls /\ target <= N * (N - 1)
                /\ Active(scopes) = BaseFrame(mode) \cup {<<"total", target>>}
                /\ status' = "SAT" => (target' = target /\ pc' = "extract")
                /\ status' # "SAT" => (target' = target + 1 /\ pc' = "loop")
          /\ target' # target => (pc = "start" \/ calls' # calls)
          /\ status = "SAT" => (calls' = calls /\ pc' \notin {"loop", "search"})
      ]_vars

\* the third candidate is the first one whose check is SAT
C26_Witness ==
    /\ mode = "optimize" /\ backend = "z3" /\ pc = "extract"
    /\ status = "SAT" /\ target = N + 2 /\ calls = 3

\* C27: symmetry breaking: every assignment accepted by the core constraints
\* holds match id 0, and no other match, at slot (period 0, week 0), on the
\* backend of the call; so does the assignment a SAT check hands on.
C27_SymmetryBreaking ==
    (N \in SolveNs /\ pc \in {"check", "search", "extract"}) =>
        /\ \A s \in CoreModels[N][backend] : s[<<0, 0>>] = {0}
        /\ pc = "extract" => \A a \in model : a.sched[<<0, 0>>] = {0}

\* an ortools call whose check was SAT, while placements with another match
\* at the slot were among the candidates
C27_Witness ==
    /\ N \in SolveNs /\ backend = "ortools" /\ pc = "extract"
    /\ \E a \in model : a.sched[<<0, 0>>] = {0}
    /\ CoreModels[N]["z3"] # {}
    /\ \E q \in Placements(N) : q[<<0, 0>>] = {1}

\* add_constraint(False) was called on the backend and is still in force
FalseAdded ==
    \E c \in Active(scopes) : c = <<"false">> \/ c[1] = "eq"

\* C28 as stated: after ORToolsBackend.add_constraint(False) the model is
\* unsatisfiable: no later check answers 'SAT'.
C28_Stated ==
    (backend = "ortools" /\ FalseAdded /\ ret.call = "check") => status # "SAT"

\* ---------------------------------------------------------------------
\* Batch runs of source/CP/run.py and source/MIP/run.py: the script is
\* launched for increasing N in steps of 2 with the same --outdir and with
\* skip_non_solvable enabled (the default of both scripts).  files is the
\* content of the output directory, a set of <<N, approach, record>>;
\* executed is the set of <<approach, N>> whose solver was started.

\* the largest N of a batch
BatchMaxN == 10

\* the first N of a batch
BatchStarts == {4, 6}

\* the stems of the .mzn files found in --dir
MznFiles == {"sts"}

ALLOWED_SOLVERS == <<"gecode", "chuffed", "cp-sat">>

\* the solvers run_all.py passes to MIP/run.py, in its order
MIPSolvers == <<"cbc", "highs">>

\* approach_name = f"{file_name}-{solver}"; key = f"MIP-{solver}"
approach_name(file_name, solver) == <<file_name, solver>>

\* the approaches of one CP run in the order of its two loops
CpApproaches ==
    LET f == CHOOSE x \in MznFiles : TRUE
    IN [j \in 1..Len(ALLOWED_SOLVERS) |-> approach_name(f, ALLOWED_SOLVERS[j])]

\* the record written for a skipped approach
skip_record == [time |-> "timeout", optimal |-> FALSE, obj |-> "None", sol |-> <<>>]

\* the records an executed approach can give: no solution parsed (CP: with
\* or without an objective value in the output), a solution with
\* objective <= N, a solution with objective > N
RunOutcomes(m) ==
    {[time |-> "timeout", optimal |-> FALSE, obj |-> "None", sol |-> <<>>],
     [time |-> "elapsed", optimal |-> TRUE, obj |-> "le_N", sol |-> <<"matrix">>],
     [time |-> "timeout", optimal |-> FALSE, obj |-> "gt_N", sol |-> <<"matrix">>]}
    \cup (IF m = "CP"
          THEN {[time |-> "timeout", optimal |-> FALSE, obj |-> "gt_N", sol |-> <<>>]}
          ELSE {})

\* the records of approach key in the file n.json
FileEntries(fs, n, key) == {e \in fs : e[1] = n /\ e[2] = key}

\* existing[key] = result; json.dump(existing) into n.json
WriteKey(fs, n, key, rec) == (fs \ FileEntries(fs, n, key)) \cup {<<n, key, rec>>}

\* CP: prev_results is loaded only if prev_N = N - 2 > 4 and the file exists
\* (otherwise it stays {}); the approach is skipped when it is in
\* prev_results with sol == []
cp_prev_unsolved(fs, n, key) ==
    /\ n - 2 > 4
    /\ \E e \in FileEntries(fs, n - 2, key) : e[3].sol = <<>>

\* a skip test that takes the solved approaches for the unsolved ones
previous_unsolved_inverted(fs, n, solver) ==
    \E e \in FileEntries(fs, n - 2, approach_name("MIP", solver)) : e[3].sol # <<>>

\* MIP: previous_unsolved(outdir, N, solver)
previous_unsolved(fs, n, solver) ==
    \E e \in FileEntries(fs, n - 2, approach_name("MIP", solver)) : e[3].sol = <<>>

BatchInit ==
    /\ mode \in {"CP", "MIP"} /\ N \in BatchStarts
    /\ pc = "launch" /\ it = 1
    /\ files = {} /\ executed = {} /\ result = {}
    /\ backend = "none" /\ rb = Empty /\ matches = Empty
    /\ scopes = <<>> /\ objective = FALSE
    /\ status = "none" /\ last_status = "none" /\ model = {} /\ target = 0
    /\ exc = "none" /\ printed = "none" /\ calls = 0
    /\ constraint_stack = <<>>
    /\ ret = [call |-> "none", value |-> "none"]
    /\ instances = <<>>
    /\ bvec = <<>> /\ karg = 0 /\ free = {}

\* CP/run.py, one pass of the loops over mzn_files and ALLOWED_SOLVERS for an
\* approach unsolved at N - 2: the skip record, and continue
CpSkip ==
    /\ mode = "CP" /\ pc = "launch" /\ it <= Len(CpApproaches)
    /\ cp_prev_unsolved(files, N, CpApproaches[it])
    /\ result' = WriteKey(result, N, CpApproaches[it], skip_record)
    /\ it' = it + 1
    /\ UNCHANGED <<N, backend, mode, pc, rb, matches>>
    /\ UNCHANGED <<scopes, objective, status, last_status, model, target, exc, printed, calls>>
    /\ UNCHANGED extraVars
    /\ UNCHANGED <<bvec, karg, free, files, executed>>

\* one pass for any other approach: run_minizinc_model and its record
CpRun ==
    /\ mode = "CP" /\ pc = "launch" /\ it <= Len(CpApproaches)
    /\ ~cp_prev_unsolved(files, N, CpApproaches[it])
    /\ executed' = executed \cup {<<CpApproaches[it], N>>}
    /\ \E rec \in RunOutcomes(mode) :
          result' = WriteKey(result, N, CpApproaches[it], rec)
    /\ it' = it + 1
    /\ UNCHANGED <<N, backend, mode, pc, rb, matches>>
    /\ UNCHANGED <<scopes, objective, status, last_status, model, target, exc, printed, calls>>
    /\ UNCHANGED extraVars
    /\ UNCHANGED <<bvec, karg, free, files>>

\* after the loops: results is written to N.json, replacing the file
CpSave ==
    /\ mode = "CP" /\ pc = "launch" /\ it > Len(CpApproaches)
    /\ files' = {e \in files : e[1] # N} \cup result
    /\ pc' = "exited"
    /\ UNCHANGED <<N, backend, mode, it, rb, matches>>
    /\ UNCHANGED solverVars
    /\ UNCHANGED extraVars
    /\ UNCHANGED <<bvec, karg, free, executed>>

\* MIP/run.py: N < 6 or odd N is rejected with exit status 1, nothing written
MipReject ==
    /\ mode = "MIP" /\ pc = "launch"
    /\ N < 6 \/ N % 2 # 0
    /\ pc' = "exited"
    /\ UNCHANGED <<N, backend, mode, it, rb, matches>>
    /\ UNCHANGED solverVars
    /\ UNCHANGED extraVars
    /\ UNCHANGED moreVars

\* MIP/run.py: N > 6 and previous_unsolved: the skip record is merged into
\* N.json and the script exits
MipSkip ==
    /\ mode = "MIP" /\ pc = "launch"
    /\ ~(N < 6 \/ N % 2 # 0)
    /\ N > 6 /\ previous_unsolved(files, N, MIPSolvers[it])
    /\ files' = WriteKey(files, N, approach_name("MIP", MIPSolvers[it]), skip_record)
    /\ pc' = "exited"
    /\ UNCHANGED <<N, backend, mode, it, rb, matches>>
    /\ UNCHANGED solverVars
    /\ UNCHANGED extraVars
    /\ UNCHANGED <<bvec, karg, free, executed>>

\* MIP/run.py otherwise: run_scheduler, and its result merged into N.json
MipRun ==
    /\ mode = "MIP" /\ pc = "launch"
    /\ ~(N < 6 \/ N % 2 # 0)
    /\ ~(N > 6 /\ previous_unsolved(files, N, MIPSolvers[it]))
    /\ executed' = executed \cup {<<approach_name("MIP", MIPSolvers[it]), N>>}
    /\ \E rec \in RunOutcomes(mode) :
          files' = WriteKey(files, N, approach_name("MIP", MIPSolvers[it]), rec)
    /\ pc' = "exited"
    /\ UNCHANGED <<N, backend, mode, it, rb, matches>>
    /\ UNCHANGED solverVars
    /\ UNCHANGED extraVars
    /\ UNCHANGED <<bvec, karg, free>>

\* the batch launches the next run: MIP the next solver at the same N, then
\* (both) the first approach at N + 2
BatchNextRun ==
    /\ pc = "exited"
    /\ IF mode = "MIP" /\ it < Len(MIPSolvers)
       THEN it' = it + 1 /\ N' = N
       ELSE N + 2 <= BatchMaxN /\ it' = 1 /\ N' = N + 2
    /\ result' = {}
    /\ pc' = "launch"
    /\ UNCHANGED <<backend, mode, rb, matches>>
    /\ UNCHANGED <<scopes, objective, status, last_status, model, target, exc, printed, calls>>
    /\ UNCHANGED extraVars
    /\ UNCHANGED moreVars

BatchNext ==
    \/ CpSkip \/ CpRun \/ CpSave
    \/ MipReject \/ MipSkip \/ MipRun
    \/ BatchNextRun

SpecBatch == BatchInit /\ [][BatchNext]_vars

\* the run of approach key at m has come to its end
RunEnded(key, m) ==
    \/ N > m
    \/ N = m /\ mode = "CP" /\ pc = "exited"
    \/ N = m /\ mode = "MIP" /\ \E j \in 1..it :
           /\ key = approach_name("MIP", MIPSolvers[j])
           /\ j = it => pc = "exited"

\* an approach recorded at some N >= first with an empty solution is not
\* executed at any larger N of the batch, and where the run of a larger N
\* has ended its record there is the skip record
SkippedFrom(first) ==
    \A e \in files : \A m \in (e[1] + 1)..BatchMaxN :
        (e[1] >= first /\ e[3].sol = <<>> /\ (m - e[1]) % 2 = 0) =>
            /\ <<e[2], m>> \notin executed
            /\ \A f \in FileEntries(files, m, e[2]) : f[3] = skip_record
            /\ RunEnded(e[2], m) => FileEntries(files, m, e[2]) # {}

FoundImbalances(n, b) ==
    IF b = "z3"
    THEN {extract_solution(n, a).imbalance :
             a \in UNION {TargetModels(n, k) :
                             k \in {c \in n..last_target(n) :
                                       \A e \in n..(c - 1) : TargetModels(n, e) = {}}}}
    ELSE {extract_solution(n, x[2]).imbalance :
             x \in {y \in SolveAnswers(n, b, "optimize", TRUE) : y[1] = "OPTIMAL"}}

\* C30 as stated: for the same even N >= 6, optimize returns a solution on
\* either backend, and the total imbalance of the solution of the z3 call
\* equals that of the solution of the ortools call.
C30_Stated ==
    (mode = "optimize" /\ N % 2 = 0 /\ N >= 6) =>
        /\ pc = "extract" =>
              \A a \in model, b \in Backends \ {backend} :
                  (/\ backend = "z3" => extract_solution(N, a).imbalance \in FoundImbalances(N, "z3")
                   /\ backend = "ortools" => last_status = "OPTIMAL") =>
                      extract_solution(N, a).imbalance \in FoundImbalances(N, b)
        /\ pc \in {"raised", "returned"} => result # {}

=============================================================================
